---- MODULE Spec2Model ----
(***************************************************************************)
(* Model of the temporal delivery engine of Digital-Doppelganger           *)
(* (Time Capsule AI): the ReminderScheduler sweeps of                      *)
(* services/scheduler.py, the store operations of services/data_manager.py *)
(* and services/nudge_manager.py they call, and the MCP tools of main.py   *)
(* that read and mutate the same tables.                                   *)
(*                                                                         *)
(* Time is counted in whole hours of the process clock datetime.now().     *)
(* SQLite's datetime('now') is UTC: it reads now + utc_offset.             *)
(* A NULL column is the empty tuple <<>>, a set column <<v>>.              *)
(***************************************************************************)
EXTENDS Integers, Sequences, FiniteSets, TLC

\* ---------------------------------------------------------------- bounds
MaxTime == 2
MaxRuns == 2
MaxCalls == 3

\* ------------------------------------------------------ program constants
\* scheduler.py:222  datetime('now', '-30 days'), in hours
ReminderActivityWindow == 720
\* scheduler.py:225  datetime('now', '-7 days'), in hours
TimelineActivityWindow == 168
\* The planner of nudge_manager.py places nudges at an hour and a minute: in
\* the planner's specifications one unit of the clock is a minute.
\* nudge_manager.py:107  one hour of datetime.combine(today, hour, minute)
Hour == 60
\* nudge_manager.py:111  timedelta(days=1)
Day == 1440
\* nudge_manager.py:122  timedelta(hours=4)
FallbackDelay == 240
\* nudge_manager.py:264  timedelta(days=14)
PatternWindow == 20160

Users == {"default_user", "u2"}
UtcOffsets == {-1, 0, 1}
Channels == <<"console", "puch">>
LoopTasks == {"loop", "loop2"}
Sweepers == LoopTasks \cup {"manual"}
Tools == {"rtool", "ntool", "ctool"}
Callers == {"main"}
Planners == {"planner"}
Procs == Sweepers \cup Tools \cup Callers \cup Planners
Statuses == {"pending", "completed", "snoozed", "cancelled"}
None == "None"
Null == <<>>

VARIABLES
  now,          \* the process clock, datetime.now()
  utc_offset,   \* datetime('now') - datetime.now(), fixed by the host's zone
  reminders,    \* table reminders: id -> row
  nudges,       \* table scheduled_nudges: id -> row
  capsules,     \* table time_capsules: id -> row
  timeline,     \* table timeline_entries: set of rows
  created,      \* the ReminderData objects handed to store_reminder, by id
  live,         \* the invocations this run uses
  is_running,   \* ReminderScheduler.is_running
  faulty,       \* whether store calls may raise in this run
  pc,           \* position of each invocation
  users,        \* local: the list _get_active_users returned (a tool: its user_id)
  uidx,         \* local: position in users
  due,          \* local: the list the last due-query returned
  idx,          \* local: position in due
  responses,    \* local of a tool: the responses collected so far (main: its calls)
  calls,        \* channel -> item id -> number of times the callback was called
  sentBy,       \* item id -> the invocations that ran the fan-out for it
  handed,       \* item id -> number of times a tool returned its content
  order,        \* invocation -> items handed to the channels in its current sweep
  attempts,     \* invocation -> the callback calls of its last _deliver_message
  failing,      \* the channels whose callback raises in this run
  runs         \* number of loop cycles, manual triggers and tool calls begun

vars == <<now, utc_offset, reminders, nudges, capsules, timeline, created, live,
          is_running, faulty, pc, users, uidx, due, idx, responses, calls, sentBy, handed,
          order, attempts, failing, runs>>

store == <<reminders, nudges, capsules, timeline, created>>
locals == <<users, uidx, due, idx, responses, order, attempts>>
history == <<calls, sentBy, handed>>
env == <<now, utc_offset, live, faulty, failing>>

\* ---------------------------------------------------------------- helpers
SqlNow == now + utc_offset

Range(s) == {s[i] : i \in DOMAIN s}

Min(S) == CHOOSE x \in S : \A y \in S : x <= y

\* ORDER BY key DESC: what the queries would return with the order reversed
RECURSIVE OrderByDesc(_, _)
OrderByDesc(S, key) ==
  IF S = {} THEN <<>>
  ELSE LET k == CHOOSE x \in {key[i] : i \in S} : \A j \in S : key[j] <= x
           m == Min({i \in S : key[i] = k})
       IN <<m>> \o OrderByDesc(S \ {m}, key)

\* ORDER BY key ASC over the rows with ids in S; rows with equal keys come
\* in rowid (insertion) order, ids being numbered in insertion order.
RECURSIVE OrderBy(_, _)
OrderBy(S, key) ==
  IF S = {} THEN <<>>
  ELSE LET k == Min({key[i] : i \in S})
           m == Min({i \in S : key[i] = k})
       IN <<m>> \o OrderBy(S \ {m}, key)

\* The lists a query without ORDER BY may return for the set S.
Perms(S) ==
  {s \in [1..Cardinality(S) -> S] : \A i, j \in DOMAIN s : i # j => s[i] # s[j]}

ChannelSet == Range(Channels)

Count(f, id) == IF id \in DOMAIN f THEN f[id] ELSE 0

Bump(f, id) == IF id \in DOMAIN f THEN [f EXCEPT ![id] = @ + 1] ELSE f @@ (id :> 1)

Key(table, col) == [i \in DOMAIN table |-> table[i][col]]

\* The row dictionaries a SELECT * returns for the ids in `ids`, in that order.
Rows(table, ids) == [k \in DOMAIN ids |-> [id |-> ids[k], row |-> table[ids[k]]]]

\* -------------------------------------------------- scheduled_nudges table
\* the WHERE clause without its delivered = 0 condition
DueNudgeIdsAnyFlag(t) == {i \in DOMAIN nudges : nudges[i].scheduled_time <= t}

\* WHERE scheduled_time <= t AND delivered = 0
DueNudgeIds(t) ==
  {i \in DOMAIN nudges : nudges[i].scheduled_time <= t /\ nudges[i].delivered = 0}

\* a query that returns the due nudges user by user, each user's by fire time
SchedulerDueNudgesByUser ==
  Rows(nudges,
       OrderBy({i \in DueNudgeIds(SqlNow) : nudges[i].user_id = "default_user"},
               Key(nudges, "scheduled_time"))
       \o OrderBy({i \in DueNudgeIds(SqlNow) : nudges[i].user_id # "default_user"},
                  Key(nudges, "scheduled_time")))

\* ReminderScheduler._get_due_nudges: all users, on the UTC clock of SQLite
SchedulerDueNudges ==
  Rows(nudges, OrderBy(DueNudgeIds(SqlNow), Key(nudges, "scheduled_time")))

\* NudgeManager.get_due_nudges(user_id, current_time)
ManagerDueNudges(u, t) ==
  Rows(nudges, OrderBy({i \in DueNudgeIds(t) : nudges[i].user_id = u},
                       Key(nudges, "scheduled_time")))

\* an update that removes the nudge's row instead of flagging it
MarkNudgeRemoves(id, t) == [i \in DOMAIN nudges \ {id} |-> nudges[i]]

\* UPDATE scheduled_nudges SET delivered = 1, delivered_at = t WHERE id = ?
\* (no condition on delivered; a missing row changes nothing)
MarkNudge(id, t) ==
  IF id \in DOMAIN nudges
  THEN [nudges EXCEPT ![id].delivered = 1, ![id].delivered_at = <<t>>]
  ELSE nudges

\* ------------------------------------------------------------- the fan-out
\* a fan-out that gives up at the first callback that raises
FanOutStopsAtRaise(args) ==
  LET all == [k \in DOMAIN Channels |->
                [channel |-> Channels[k], args |-> args,
                 raised |-> Channels[k] \in failing]]
      bad == {k \in DOMAIN all : all[k].raised}
  IN IF bad = {} THEN all ELSE SubSeq(all, 1, Min(bad))

\* ReminderScheduler._deliver_message: for callback in self.delivery_callbacks,
\* in registration order, await callback(user_id, message, message_type,
\* item_id); an exception of a callback is caught and logged, the loop goes on.
FanOut(args) ==
  [k \in DOMAIN Channels |->
     [channel |-> Channels[k], args |-> args, raised |-> Channels[k] \in failing]]

\* the calls counted per channel after the callbacks in `made` were called for id
CallAll(id, made) ==
  [c \in ChannelSet |->
     IF \E k \in DOMAIN made : made[k].channel = c THEN Bump(calls[c], id) ELSE calls[c]]

Deliver(p, args) ==
  LET id == args.item_id
  IN /\ attempts' = [attempts EXCEPT ![p] = FanOut(args)]
     /\ calls' = CallAll(id, attempts'[p])
     /\ sentBy' = IF id \in DOMAIN sentBy
                  THEN [sentBy EXCEPT ![id] = @ \cup {p}]
                  ELSE sentBy @@ (id :> {p})
     /\ order' = [order EXCEPT ![p] = Append(@, id)]

Current(p) == due[p][idx[p]]

LastItem(p) == idx[p] + 1 > Len(due[p])

\* The sweep function returns (normally or through its except): its locals
\* are gone and the invocation goes on at `nxt`.
EndSweep(p, nxt) ==
  /\ pc' = [pc EXCEPT ![p] = nxt]
  /\ users' = [users EXCEPT ![p] = <<>>]
  /\ uidx' = [uidx EXCEPT ![p] = 1]
  /\ due' = [due EXCEPT ![p] = <<>>]
  /\ idx' = [idx EXCEPT ![p] = 1]
  /\ order' = [order EXCEPT ![p] = <<>>]
  /\ attempts' = [attempts EXCEPT ![p] = <<>>]

\* where an invocation goes after its third sweep: the loop sleeps, the manual
\* trigger returns
CycleEnd(p) == IF p \in LoopTasks THEN "sleep" ELSE "idle"

\* As if a sweep had no try/except: the exception reaches the except clause of
\* _scheduler_loop, which logs and sleeps
CaughtByLoop(p, nxt) == EndSweep(p, CycleEnd(p))

\* `except Exception as e: self.logger.error(...)` of a sweep: the sweep
\* returns normally and its caller goes on at `nxt`
Caught(p, nxt) == EndSweep(p, nxt)

\* A tool returns: its locals are gone.
EndTool(p) ==
  /\ pc' = [pc EXCEPT ![p] = "idle"]
  /\ users' = [users EXCEPT ![p] = <<>>]
  /\ due' = [due EXCEPT ![p] = <<>>]
  /\ idx' = [idx EXCEPT ![p] = 1]
  /\ responses' = [responses EXCEPT ![p] = <<>>]


\* ------------------------------------------------------------ nudge sweep
\* ReminderScheduler._check_and_deliver_nudges, one step per await.
\* _get_due_nudges returns [] when its query raises.
NudgeQuery(p) ==
  /\ pc[p] = "n_query"
  /\ \E rows \in {SchedulerDueNudges} \cup (IF faulty THEN {<<>>} ELSE {}) :
       IF rows = <<>>
       THEN EndSweep(p, "c_users")
       ELSE /\ due' = [due EXCEPT ![p] = rows]
            /\ idx' = [idx EXCEPT ![p] = 1]
            /\ pc' = [pc EXCEPT ![p] = "n_deliver"]
            /\ UNCHANGED <<users, uidx, order, attempts>>
  /\ UNCHANGED <<store, env, is_running, responses, history, runs>>

\* user_id = nudge['user_id'], message = nudge['trigger_message']
NudgeArgs(nudge) ==
  [user_id |-> nudge.row.user_id, message |-> <<nudge.row.trigger_message>>,
   message_type |-> "nudge", item_id |-> nudge.id]

\* a nudge sweep that goes on to the mark without calling _deliver_message
NudgeDeliverSkipped(p) ==
  /\ pc[p] = "n_deliver"
  /\ pc' = [pc EXCEPT ![p] = "n_mark"]
  /\ UNCHANGED <<store, env, is_running, locals, history, runs>>

\* message = nudge['trigger_message'], then _deliver_message
NudgeDeliver(p) ==
  /\ pc[p] = "n_deliver"
  /\ Deliver(p, NudgeArgs(Current(p)))
  /\ pc' = [pc EXCEPT ![p] = "n_mark"]
  /\ UNCHANGED <<store, env, is_running, users, uidx, due, idx, responses,
                 handed, runs>>

\* _mark_nudge_delivered, then the next nudge
NudgeMark(p) ==
  /\ pc[p] = "n_mark"
  /\ nudges' = MarkNudge(Current(p).id, SqlNow)
  /\ IF LastItem(p)
     THEN EndSweep(p, "c_users")
     ELSE /\ idx' = [idx EXCEPT ![p] = @ + 1]
          /\ pc' = [pc EXCEPT ![p] = "n_deliver"]
          /\ UNCHANGED <<users, uidx, due, order, attempts>>
  /\ UNCHANGED <<reminders, capsules, timeline, created, env, is_running,
                 responses, history, runs>>

\* _mark_nudge_delivered raises: caught by the sweep's except, the sweep ends
NudgeMarkRaises(p) ==
  /\ pc[p] = "n_mark"
  /\ faulty
  /\ Caught(p, "c_users")
  /\ UNCHANGED <<store, env, is_running, responses, history, runs>>

\* ------------------------------------------------- get_due_nudges (main.py)
HandOut(ids) == [i \in DOMAIN handed \cup Range(ids) |->
                   Count(handed, i) + Cardinality({k \in DOMAIN ids : ids[k] = i})]

\* nudge_manager.get_due_nudges returns [] when its query raises
NudgeToolQuery(u) ==
  /\ "ntool" \in live
  /\ pc["ntool"] = "idle"
  /\ runs < MaxRuns
  /\ runs' = runs + 1
  /\ \E rows \in {ManagerDueNudges(u, now)} \cup (IF faulty THEN {<<>>} ELSE {}) :
       /\ users' = [users EXCEPT !["ntool"] = IF rows = <<>> THEN <<>> ELSE <<u>>]
       /\ due' = [due EXCEPT !["ntool"] = rows]
       /\ pc' = [pc EXCEPT !["ntool"] = IF rows = <<>> THEN "idle" ELSE "nt_item"]
  /\ UNCHANGED <<store, env, is_running, uidx, idx, responses, history, order, attempts>>

\* generate_nudge_message, then NudgeManager.mark_nudge_delivered (which
\* swallows a store error)
NudgeToolItem ==
  /\ pc["ntool"] = "nt_item"
  /\ responses' = [responses EXCEPT !["ntool"] = Append(@, Current("ntool").id)]
  /\ \E nxt \in {MarkNudge(Current("ntool").id, now)} \cup
                (IF faulty THEN {nudges} ELSE {}) : nudges' = nxt
  /\ idx' = [idx EXCEPT !["ntool"] = @ + 1]
  /\ pc' = [pc EXCEPT !["ntool"] = IF LastItem("ntool") THEN "nt_return" ELSE "nt_item"]
  /\ UNCHANGED <<reminders, capsules, timeline, created, env, is_running, users,
                 uidx, due, history, order, attempts, runs>>

NudgeToolReturn ==
  /\ pc["ntool"] = "nt_return"
  /\ handed' = HandOut(responses["ntool"])
  /\ EndTool("ntool")
  /\ UNCHANGED <<store, env, is_running, uidx, order, attempts, calls, sentBy, runs>>

\* --------------------------------------------------------- reminders table
\* DatabaseManager.serialize_json: None stays NULL, anything else becomes JSON text
\* (data is a dict here; NoDict stands for Python's None among dicts)
NoDict == [none |-> TRUE]

serialize_json(data) == IF data = NoDict THEN Null ELSE <<data>>

\* DataManager._deserialize_emotion_profile: the neutral default for an empty
\* column, data.get(key, default) otherwise
_deserialize_emotion_profile(json_str) ==
  IF json_str = Null
  THEN [primary_emotion |-> "neutral"]
  ELSE LET data == json_str[1]
       IN [primary_emotion |-> IF "primary_emotion" \in DOMAIN data
                               THEN data.primary_emotion ELSE "neutral"]

\* DataManager._deserialize_activity_context
_deserialize_activity_context(json_str) ==
  IF json_str = Null
  THEN [primary_activity |-> "general"]
  ELSE LET data == json_str[1]
       IN [primary_activity |-> IF "primary_activity" \in DOMAIN data
                                THEN data.primary_activity ELSE "general"]

\* DataManager.store_reminder: the row inserted for a ReminderData object
StoreReminderRow(r) ==
  [user_id |-> r.user_id, created_at |-> r.created_at, due_at |-> r.due_at,
   emotional_context |-> serialize_json(r.emotional_context),
   activity_context |-> serialize_json(r.activity_context),
   delivery_count |-> r.delivery_count, status |-> r.completion_status]

\* ... and the timeline entry it adds
StoreReminderTimeline(r) == [user_id |-> r.user_id, timestamp |-> r.created_at]

\* DataManager._row_to_reminder
_row_to_reminder(id, row) ==
  [id |-> id, user_id |-> row.user_id, created_at |-> row.created_at,
   due_at |-> row.due_at,
   emotional_context |-> _deserialize_emotion_profile(row.emotional_context),
   activity_context |-> _deserialize_activity_context(row.activity_context),
   completion_status |-> row.status, delivery_count |-> row.delivery_count]

\* the WHERE clause without its status condition
DueReminderIdsAnyStatus(u, t) ==
  {i \in DOMAIN reminders : reminders[i].user_id = u /\ reminders[i].due_at <= t}

\* WHERE user_id = ? AND due_at <= ? AND status = 'pending'
DueReminderIds(u, t) ==
  {i \in DOMAIN reminders : /\ reminders[i].user_id = u
                            /\ reminders[i].due_at <= t
                            /\ reminders[i].status = "pending"}

\* DataManager.get_due_reminders(user_id, current_time)
get_due_reminders(u, t) ==
  LET ids == OrderBy(DueReminderIds(u, t), Key(reminders, "due_at"))
  IN [k \in DOMAIN ids |-> _row_to_reminder(ids[k], reminders[ids[k]])]

\* an update that writes back the count of the object its caller fetched, plus 1
UpdateDeliveryFromFetched(id) ==
  IF id \in DOMAIN reminders
  THEN LET fetched == {due[p][idx[p]].delivery_count :
                         p \in {q \in Sweepers \cup {"rtool"} :
                                  /\ pc[q] \in {"r_update", "rt_item"}
                                  /\ idx[q] \in DOMAIN due[q]
                                  /\ due[q][idx[q]].id = id}}
       IN [reminders EXCEPT ![id].delivery_count =
             IF fetched = {} THEN @ + 1 ELSE Min(fetched) + 1]
  ELSE reminders

\* an update that also moves the reminder's due time to the next hour
UpdateDeliveryReschedules(id) ==
  IF id \in DOMAIN reminders
  THEN [reminders EXCEPT ![id].delivery_count = @ + 1, ![id].due_at = now + 1]
  ELSE reminders

\* an update that counts a hand-over twice
UpdateDeliveryTwice(id) ==
  IF id \in DOMAIN reminders
  THEN [reminders EXCEPT ![id].delivery_count = @ + 2]
  ELSE reminders

\* DataManager.update_reminder_delivery: delivery_count = delivery_count + 1
\* (a missing row changes nothing)
update_reminder_delivery(id) ==
  IF id \in DOMAIN reminders
  THEN [reminders EXCEPT ![id].delivery_count = @ + 1]
  ELSE reminders

\* ReminderScheduler._get_active_users: reminders created in the last 30 days
\* or timeline entries of the last 7 days, on SQLite's clock
ActiveUsers ==
  {reminders[i].user_id :
     i \in {j \in DOMAIN reminders :
              reminders[j].created_at > SqlNow - ReminderActivityWindow}}
  \cup {e.user_id : e \in {x \in timeline :
                             x.timestamp > SqlNow - TimelineActivityWindow}}

\* The lists _get_active_users may return: the query's rows, or the fallback
\* when the query raises.
ActiveUserLists ==
  Perms(ActiveUsers) \cup (IF faulty THEN {<<"default_user">>} ELSE {})

\* --------------------------------------------------------- reminder sweep
\* ReminderScheduler._check_and_deliver_reminders, one step per await
RemUsers(p) ==
  /\ pc[p] = "r_users"
  /\ \E us \in ActiveUserLists : users' = [users EXCEPT ![p] = us]
  /\ pc' = [pc EXCEPT ![p] = "r_query"]
  /\ UNCHANGED <<store, env, is_running, uidx, due, idx, responses, history,
                 order, attempts, runs>>

\* the next user's get_due_reminders (and build_user_profile, which never
\* raises), or the end of the sweep after the last user
RemQuery(p) ==
  /\ pc[p] = "r_query"
  /\ IF uidx[p] > Len(users[p])
     THEN EndSweep(p, "n_query")
     ELSE LET rows == get_due_reminders(users[p][uidx[p]], now)
          IN /\ due' = [due EXCEPT ![p] = rows]
             /\ idx' = [idx EXCEPT ![p] = 1]
             /\ uidx' = [uidx EXCEPT ![p] = IF rows = <<>> THEN @ + 1 ELSE @]
             /\ pc' = [pc EXCEPT ![p] = IF rows = <<>> THEN "r_query" ELSE "r_deliver"]
             /\ UNCHANGED <<users, order, attempts>>
  /\ UNCHANGED <<store, env, is_running, responses, history, runs>>

\* get_due_reminders raises: caught by the sweep's except, the sweep ends
RemQueryRaises(p) ==
  /\ pc[p] = "r_query"
  /\ faulty
  /\ uidx[p] <= Len(users[p])
  /\ Caught(p, "n_query")
  /\ UNCHANGED <<store, env, is_running, responses, history, runs>>

\* ReminderScheduler._create_reminder_message: the time elapsed, the activity
\* and the emotion of the reminder, built once for all channels
_create_reminder_message(reminder) ==
  <<now - reminder.created_at, reminder.activity_context.primary_activity,
    reminder.emotional_context.primary_emotion>>

ReminderArgs(user_id, reminder) ==
  [user_id |-> user_id, message |-> _create_reminder_message(reminder),
   message_type |-> "reminder", item_id |-> reminder.id]

\* _create_reminder_message, then _deliver_message
RemDeliver(p) ==
  /\ pc[p] = "r_deliver"
  /\ Deliver(p, ReminderArgs(users[p][uidx[p]], Current(p)))
  /\ pc' = [pc EXCEPT ![p] = "r_update"]
  /\ UNCHANGED <<store, env, is_running, users, uidx, due, idx, responses,
                 handed, runs>>

\* update_reminder_delivery, then the next reminder or the next user
RemUpdate(p) ==
  /\ pc[p] = "r_update"
  /\ reminders' = update_reminder_delivery(Current(p).id)
  /\ idx' = [idx EXCEPT ![p] = @ + 1]
  /\ uidx' = [uidx EXCEPT ![p] = IF LastItem(p) THEN @ + 1 ELSE @]
  /\ pc' = [pc EXCEPT ![p] = IF LastItem(p) THEN "r_query" ELSE "r_deliver"]
  /\ UNCHANGED <<nudges, capsules, timeline, created, env, is_running, users,
                 due, responses, history, order, attempts, runs>>

\* update_reminder_delivery raises: caught by the sweep's except, the sweep ends
RemUpdateRaises(p) ==
  /\ pc[p] = "r_update"
  /\ faulty
  /\ Caught(p, "n_query")
  /\ UNCHANGED <<store, env, is_running, responses, history, runs>>

\* ------------------------------------------------ get_due_reminders (main.py)
\* data_manager.get_due_reminders; a store error becomes an McpError
RemToolQuery(u) ==
  /\ "rtool" \in live
  /\ pc["rtool"] = "idle"
  /\ runs < MaxRuns
  /\ runs' = runs + 1
  /\ \E rows \in {get_due_reminders(u, now)} \cup (IF faulty THEN {<<>>} ELSE {}) :
       /\ users' = [users EXCEPT !["rtool"] = IF rows = <<>> THEN <<>> ELSE <<u>>]
       /\ due' = [due EXCEPT !["rtool"] = rows]
       /\ pc' = [pc EXCEPT !["rtool"] = IF rows = <<>> THEN "idle" ELSE "rt_item"]
  /\ UNCHANGED <<store, env, is_running, uidx, idx, responses, history, order, attempts>>

\* _build_context_story, adapt_response_tone, then update_reminder_delivery
RemToolItem ==
  /\ pc["rtool"] = "rt_item"
  /\ responses' = [responses EXCEPT !["rtool"] = Append(@, Current("rtool").id)]
  /\ reminders' = update_reminder_delivery(Current("rtool").id)
  /\ idx' = [idx EXCEPT !["rtool"] = @ + 1]
  /\ pc' = [pc EXCEPT !["rtool"] = IF LastItem("rtool") THEN "rt_return" ELSE "rt_item"]
  /\ UNCHANGED <<nudges, capsules, timeline, created, env, is_running, users,
                 uidx, due, history, order, attempts, runs>>

\* update_reminder_delivery raises: McpError, the collected responses are lost
RemToolRaises ==
  /\ pc["rtool"] = "rt_item"
  /\ faulty
  /\ EndTool("rtool")
  /\ UNCHANGED <<store, env, is_running, uidx, order, attempts, history, runs>>

RemToolReturn ==
  /\ pc["rtool"] = "rt_return"
  /\ handed' = HandOut(responses["rtool"])
  /\ EndTool("rtool")
  /\ UNCHANGED <<store, env, is_running, uidx, order, attempts, calls, sentBy, runs>>

\* ------------------------------------------------------ time_capsules table
\* ReminderScheduler._get_due_time_capsules: WHERE user_id = ? AND
\* earliest_delivery <= datetime('now') AND delivered_at IS NULL
\* ORDER BY earliest_delivery ASC
SchedulerDueCapsuleIds(u) ==
  {i \in DOMAIN capsules : /\ capsules[i].user_id = u
                           /\ capsules[i].earliest_delivery <= SqlNow
                           /\ capsules[i].delivered_at = Null}

SchedulerDueCapsules(u) ==
  Rows(capsules, OrderBy(SchedulerDueCapsuleIds(u),
                         Key(capsules, "earliest_delivery")))

\* DataManager.get_due_time_capsules: WHERE user_id = ? AND earliest_delivery <= ?
\* AND latest_delivery >= ? AND delivered_at IS NULL ORDER BY created_at ASC
ManagerDueCapsuleIds(u, t) ==
  {i \in DOMAIN capsules : /\ capsules[i].user_id = u
                           /\ capsules[i].earliest_delivery <= t
                           /\ capsules[i].latest_delivery >= t
                           /\ capsules[i].delivered_at = Null}

ManagerDueCapsules(u, t) ==
  Rows(capsules, OrderBy(ManagerDueCapsuleIds(u, t), Key(capsules, "created_at")))

\* UPDATE time_capsules SET delivered_at = t WHERE id = ?
\* (no condition on delivered_at; a missing row changes nothing)
MarkCapsule(id, t) ==
  IF id \in DOMAIN capsules
  THEN [capsules EXCEPT ![id].delivered_at = <<t>>]
  ELSE capsules

\* ------------------------------------------------------ time-capsule sweep
\* ReminderScheduler._check_and_deliver_time_capsules, one step per await
CapUsers(p) ==
  /\ pc[p] = "c_users"
  /\ \E us \in ActiveUserLists : users' = [users EXCEPT ![p] = us]
  /\ pc' = [pc EXCEPT ![p] = "c_query"]
  /\ UNCHANGED <<store, env, is_running, uidx, due, idx, responses, history,
                 order, attempts, runs>>

\* the next user's _get_due_time_capsules (which returns [] when its query
\* raises), or the end of the sweep, and of the cycle, after the last user
CapQuery(p) ==
  /\ pc[p] = "c_query"
  /\ IF uidx[p] > Len(users[p])
     THEN EndSweep(p, CycleEnd(p))
     ELSE \E rows \in {SchedulerDueCapsules(users[p][uidx[p]])} \cup
                      (IF faulty THEN {<<>>} ELSE {}) :
             /\ due' = [due EXCEPT ![p] = rows]
             /\ idx' = [idx EXCEPT ![p] = 1]
             /\ uidx' = [uidx EXCEPT ![p] = IF rows = <<>> THEN @ + 1 ELSE @]
             /\ pc' = [pc EXCEPT ![p] = IF rows = <<>> THEN "c_query" ELSE "c_deliver"]
             /\ UNCHANGED <<users, order, attempts>>
  /\ UNCHANGED <<store, env, is_running, responses, history, runs>>

\* ReminderScheduler._create_time_capsule_message: the creation date
_create_time_capsule_message(capsule) == <<capsule.row.created_at>>

CapsuleArgs(user_id, capsule) ==
  [user_id |-> user_id, message |-> _create_time_capsule_message(capsule),
   message_type |-> "time_capsule", item_id |-> capsule.id]

\* _create_time_capsule_message, then _deliver_message
CapDeliver(p) ==
  /\ pc[p] = "c_deliver"
  /\ Deliver(p, CapsuleArgs(users[p][uidx[p]], Current(p)))
  /\ pc' = [pc EXCEPT ![p] = "c_mark"]
  /\ UNCHANGED <<store, env, is_running, users, uidx, due, idx, responses,
                 handed, runs>>

\* _mark_time_capsule_delivered, then the next capsule or the next user
CapMark(p) ==
  /\ pc[p] = "c_mark"
  /\ capsules' = MarkCapsule(Current(p).id, SqlNow)
  /\ idx' = [idx EXCEPT ![p] = @ + 1]
  /\ uidx' = [uidx EXCEPT ![p] = IF LastItem(p) THEN @ + 1 ELSE @]
  /\ pc' = [pc EXCEPT ![p] = IF LastItem(p) THEN "c_query" ELSE "c_deliver"]
  /\ UNCHANGED <<reminders, nudges, timeline, created, env, is_running, users,
                 due, responses, history, order, attempts, runs>>

\* _mark_time_capsule_delivered raises: caught by the sweep's except
CapMarkRaises(p) ==
  /\ pc[p] = "c_mark"
  /\ faulty
  /\ Caught(p, CycleEnd(p))
  /\ UNCHANGED <<store, env, is_running, responses, history, runs>>

\* -------------------------------------------- get_due_time_capsules (main.py)
\* data_manager.get_due_time_capsules; a store error returns the apology
CapToolQuery(u) ==
  /\ "ctool" \in live
  /\ pc["ctool"] = "idle"
  /\ runs < MaxRuns
  /\ runs' = runs + 1
  /\ \E rows \in {ManagerDueCapsules(u, now)} \cup (IF faulty THEN {<<>>} ELSE {}) :
       /\ users' = [users EXCEPT !["ctool"] = IF rows = <<>> THEN <<>> ELSE <<u>>]
       /\ due' = [due EXCEPT !["ctool"] = rows]
       /\ pc' = [pc EXCEPT !["ctool"] = IF rows = <<>> THEN "idle" ELSE "ct_item"]
  /\ UNCHANGED <<store, env, is_running, uidx, idx, responses, history, order, attempts>>

\* _build_time_capsule_delivery, then DataManager.mark_time_capsule_delivered
CapToolItem ==
  /\ pc["ctool"] = "ct_item"
  /\ responses' = [responses EXCEPT !["ctool"] = Append(@, Current("ctool").id)]
  /\ capsules' = MarkCapsule(Current("ctool").id, now)
  /\ idx' = [idx EXCEPT !["ctool"] = @ + 1]
  /\ pc' = [pc EXCEPT !["ctool"] = IF LastItem("ctool") THEN "ct_return" ELSE "ct_item"]
  /\ UNCHANGED <<reminders, nudges, timeline, created, env, is_running, users,
                 uidx, due, history, order, attempts, runs>>

\* mark_time_capsule_delivered raises: the apology is returned, the collected
\* responses are lost
CapToolRaises ==
  /\ pc["ctool"] = "ct_item"
  /\ faulty
  /\ EndTool("ctool")
  /\ UNCHANGED <<store, env, is_running, uidx, order, attempts, history, runs>>

CapToolReturn ==
  /\ pc["ctool"] = "ct_return"
  /\ handed' = HandOut(responses["ctool"])
  /\ EndTool("ctool")
  /\ UNCHANGED <<store, env, is_running, uidx, order, attempts, calls, sentBy, runs>>

\* ------------------------------------------------------------ the scheduler
\* start() without its guard: sets the flag and creates a loop task
StartAlways ==
  /\ \E t \in LoopTasks \cap live :
       /\ pc[t] = "none"
       /\ t = "loop" \/ pc["loop"] # "none" \/ "loop" \notin live
       /\ pc' = [pc EXCEPT ![t] = "head"]
  /\ is_running' = TRUE

\* ReminderScheduler.start: a no-op when already running, else the flag is set
\* and a new loop task created (in the first free task slot)
StartEffect ==
  IF is_running
  THEN UNCHANGED <<is_running, pc>>
  ELSE /\ \E t \in LoopTasks \cap live :
            /\ pc[t] = "none"
            /\ t = "loop" \/ pc["loop"] # "none" \/ "loop" \notin live
            /\ pc' = [pc EXCEPT ![t] = "head"]
       /\ is_running' = TRUE

Start ==
  /\ StartEffect
  /\ UNCHANGED <<store, env, locals, history, runs>>

\* ReminderScheduler.stop
Stop ==
  /\ is_running
  /\ is_running' = FALSE
  /\ UNCHANGED <<store, env, pc, locals, history, runs>>

\* An entry of the caller's log: the call and where the first loop task stood
\* when it was made
Logged(call) == [call |-> call, loop |-> pc["loop"]]

\* main (or any other caller) awaits scheduler.start()
StartCall ==
  /\ "main" \in live
  /\ Len(responses["main"]) < MaxCalls
  /\ StartEffect
  /\ responses' = [responses EXCEPT !["main"] = Append(@, Logged("start"))]
  /\ UNCHANGED <<store, env, users, uidx, due, idx, order, attempts, history, runs>>

\* a stop() that cancels the loop tasks where they stand
StopCancels ==
  /\ "main" \in live
  /\ Len(responses["main"]) < MaxCalls
  /\ is_running' = FALSE
  /\ pc' = [p \in Procs |-> IF p \in LoopTasks THEN "none" ELSE pc[p]]
  /\ responses' = [responses EXCEPT !["main"] = Append(@, Logged("stop"))]
  /\ UNCHANGED <<store, env, users, uidx, due, idx, order, attempts, history, runs>>

\* main (or any other caller) awaits scheduler.stop()
StopCall ==
  /\ "main" \in live
  /\ Len(responses["main"]) < MaxCalls
  /\ is_running' = FALSE
  /\ responses' = [responses EXCEPT !["main"] = Append(@, Logged("stop"))]
  /\ UNCHANGED <<store, env, pc, users, uidx, due, idx, order, attempts, history, runs>>

\* a loop whose cycle begins with the nudge sweep
LoopHeadNudgesFirst(t) ==
  /\ pc[t] = "head"
  /\ IF is_running
     THEN /\ runs < MaxRuns
          /\ runs' = runs + 1
          /\ pc' = [pc EXCEPT ![t] = "n_query"]
     ELSE /\ pc' = [pc EXCEPT ![t] = "none"]
          /\ UNCHANGED runs
  /\ UNCHANGED <<store, env, is_running, locals, history>>

\* a loop that tests nothing: while True
LoopHeadIgnoresFlag(t) ==
  /\ pc[t] = "head"
  /\ runs < MaxRuns
  /\ runs' = runs + 1
  /\ pc' = [pc EXCEPT ![t] = "r_users"]
  /\ UNCHANGED <<store, env, is_running, locals, history>>

\* while self.is_running: the next cycle, or the task ends
LoopHead(t) ==
  /\ pc[t] = "head"
  /\ IF is_running
     THEN /\ runs < MaxRuns
          /\ runs' = runs + 1
          /\ pc' = [pc EXCEPT ![t] = "r_users"]
     ELSE /\ pc' = [pc EXCEPT ![t] = "none"]
          /\ UNCHANGED runs
  /\ UNCHANGED <<store, env, is_running, locals, history>>

\* asyncio.sleep(check_interval) returns
WakeUp(t) ==
  /\ pc[t] = "sleep"
  /\ pc' = [pc EXCEPT ![t] = "head"]
  /\ UNCHANGED <<store, env, is_running, locals, history, runs>>

\* a manual trigger that leaves out the reminder sweep
ManualTriggerSkipsReminders ==
  /\ "manual" \in live
  /\ pc["manual"] = "idle"
  /\ runs < MaxRuns
  /\ runs' = runs + 1
  /\ pc' = [pc EXCEPT !["manual"] = "n_query"]
  /\ UNCHANGED <<store, env, is_running, locals, history>>

\* trigger_delivery_check (main.py): the three sweeps, in the caller's task
ManualTrigger ==
  /\ "manual" \in live
  /\ pc["manual"] = "idle"
  /\ runs < MaxRuns
  /\ runs' = runs + 1
  /\ pc' = [pc EXCEPT !["manual"] = "r_users"]
  /\ UNCHANGED <<store, env, is_running, locals, history>>

\* the clock advances
Tick ==
  /\ now < MaxTime
  /\ now' = now + 1
  /\ UNCHANGED <<store, utc_offset, live, faulty, failing, is_running, pc, locals,
                 history, runs>>

\* ------------------------------------------------------------ initial states
\* The state after construction (main.py:75-94): nothing running, the tables as
\* the request layer left them, the clock at 0.
InitWith(l, f, offsets, fails) ==
  /\ now = 0
  /\ utc_offset \in offsets
  /\ live = l
  /\ faulty = f
  /\ failing \in fails
  /\ is_running = FALSE
  /\ pc = [p \in Procs |-> IF p \in LoopTasks THEN "none" ELSE "idle"]
  /\ users = [p \in Procs |-> <<>>]
  /\ uidx = [p \in Procs |-> 1]
  /\ due = [p \in Procs |-> <<>>]
  /\ idx = [p \in Procs |-> 1]
  /\ responses = [p \in Procs |-> <<>>]
  /\ calls = [c \in ChannelSet |-> <<>>]
  /\ sentBy = <<>>
  /\ handed = <<>>
  /\ order = [p \in Procs |-> <<>>]
  /\ attempts = [p \in Procs |-> <<>>]
  /\ runs = 0

\* ... with delivery callbacks that do not raise
InitProcess(l, f, offsets) == InitWith(l, f, offsets, {{}})

NudgeRow(u, t, kind, msg, d, at) ==
  [user_id |-> u, scheduled_time |-> t, nudge_type |-> kind,
   trigger_message |-> msg, delivered |-> d, delivered_at |-> at]

\* a contextual nudge, a daily nudge (no trigger_message column written) and
\* a nudge delivered earlier
NudgeTable ==
  (11 :> NudgeRow("default_user", 1, "contextual", "finished the report", 0, Null))
  @@ (12 :> NudgeRow("u2", 2, "daily", None, 0, Null))
  @@ (13 :> NudgeRow("default_user", 0, "contextual", "gym", 1, <<0>>))

InitNudge ==
  /\ InitProcess({"loop", "manual", "ntool"}, TRUE, UtcOffsets)
  /\ reminders = <<>>
  /\ created = <<>>
  /\ timeline = {}
  /\ capsules = <<>>
  /\ nudges = NudgeTable

\* the background loop alone
InitNudgeLoop ==
  /\ InitProcess({"loop"}, TRUE, UtcOffsets)
  /\ reminders = <<>>
  /\ created = <<>>
  /\ timeline = {}
  /\ capsules = <<>>
  /\ nudges = NudgeTable

Clock == Tick

Loop ==
  \/ Start
  \/ \E t \in LoopTasks : LoopHead(t) \/ WakeUp(t)

\* the reminder and capsule sweeps over tables that hold no due row
EmptySweeps ==
  \E p \in Sweepers : RemUsers(p) \/ RemQuery(p) \/ RemQueryRaises(p)
                      \/ CapUsers(p) \/ CapQuery(p)

NudgeSweep ==
  \E p \in Sweepers : NudgeQuery(p) \/ NudgeDeliver(p) \/ NudgeMark(p)
                      \/ NudgeMarkRaises(p)

NudgeTool ==
  \/ \E u \in Users : NudgeToolQuery(u)
  \/ NudgeToolItem
  \/ NudgeToolReturn

\* Nudges only: the loop, the manual trigger and the get_due_nudges tool
\* interleaved at their awaits, store calls free to raise.
NextNudge == Clock \/ Loop \/ ManualTrigger \/ EmptySweeps \/ NudgeSweep \/ NudgeTool

SpecNudge == InitNudge /\ [][NextNudge]_vars

\* Nudges only, the background loop alone, store calls free to raise.
NextNudgeLoop == Clock \/ Loop \/ EmptySweeps \/ NudgeSweep

SpecNudgeLoop == InitNudgeLoop /\ [][NextNudgeLoop]_vars

\* ------------------------------------------------------ time-capsule store
\* DataManager.store_time_capsule: the row inserted for a TimeCapsule
\* (delivered_at is left NULL; no timeline entry is written)
StoreCapsuleRow(u, c, e, l) ==
  [user_id |-> u, created_at |-> c, earliest_delivery |-> e,
   latest_delivery |-> l, delivered_at |-> Null]

\* two capsules of a user whose windows are [1, 1] and [2, 4], the second one
\* created first, and a capsule of a user with no recent activity
CapsuleTable ==
  (21 :> StoreCapsuleRow("default_user", -5, 1, 1))
  @@ (22 :> StoreCapsuleRow("default_user", -9, 2, 4))
  @@ (23 :> StoreCapsuleRow("u2", -7, 0, 2))

\* conversation_timeline: default_user talked an hour ago, u2 a month ago
CapsuleTimeline ==
  {[user_id |-> "default_user", timestamp |-> -1],
   [user_id |-> "u2", timestamp |-> -700]}

\* a host whose local clock is UTC, a store that never raises
InitCapsule ==
  /\ InitProcess({"loop", "manual", "ctool"}, FALSE, {0})
  /\ reminders = <<>>
  /\ created = <<>>
  /\ timeline = CapsuleTimeline
  /\ capsules = CapsuleTable
  /\ nudges = <<>>

\* the reminder and nudge sweeps over empty tables
QuietSweeps ==
  \E p \in Sweepers : RemUsers(p) \/ RemQuery(p) \/ NudgeQuery(p)

CapsuleSweep ==
  \E p \in Sweepers : CapUsers(p) \/ CapQuery(p) \/ CapDeliver(p) \/ CapMark(p)

CapsuleTool ==
  \/ \E u \in Users : CapToolQuery(u)
  \/ CapToolItem
  \/ CapToolReturn

\* Time capsules only: the loop, the manual trigger and the
\* get_due_time_capsules tool interleaved at their awaits.
NextCapsule ==
  Clock \/ Loop \/ ManualTrigger \/ QuietSweeps \/ CapsuleSweep \/ CapsuleTool

SpecCapsule == InitCapsule /\ [][NextCapsule]_vars

\* --------------------------------------------------------- reminder store
\* A ReminderData object as create_reminder builds it (main.py:162-173)
ReminderData(u, c, d, emotion, activity, status) ==
  [user_id |-> u, created_at |-> c, due_at |-> d,
   emotional_context |-> [primary_emotion |-> emotion],
   activity_context |-> [primary_activity |-> activity],
   completion_status |-> status, delivery_count |-> 0]

\* The tables after store_reminder was called for every object of `objs`
StoredReminders(objs) ==
  /\ created = objs
  /\ reminders = [i \in DOMAIN objs |-> StoreReminderRow(objs[i])]
  /\ timeline = {StoreReminderTimeline(objs[i]) : i \in DOMAIN objs}

\* three pending reminders of default_user, stored in descending due order,
\* a pending reminder of u2 and a completed reminder
ReminderObjects ==
  (1 :> ReminderData("default_user", -5, 2, "stressed", "working", "pending"))
  @@ (2 :> ReminderData("default_user", -4, 1, "excited", "exercising", "pending"))
  @@ (3 :> ReminderData("default_user", -3, 0, "calm", "relaxing", "pending"))
  @@ (4 :> ReminderData("u2", -2, 1, "anxious", "working", "pending"))
  @@ (5 :> ReminderData("default_user", -1, 0, "happy", "social", "completed"))

\* a store that never raises; a host on UTC (the reminder sweep reads SQLite's
\* clock only for the 30-day and 7-day activity windows, which an offset of an
\* hour does not move past any stored row)
InitReminder ==
  /\ InitProcess({"loop", "manual"}, FALSE, {0})
  /\ StoredReminders(ReminderObjects)
  /\ nudges = <<>>
  /\ capsules = <<>>

\* the background loop alone, store calls free to raise
InitReminderFault ==
  /\ InitProcess({"loop"}, TRUE, UtcOffsets)
  /\ StoredReminders(ReminderObjects)
  /\ nudges = <<>>
  /\ capsules = <<>>

ReminderSweep ==
  \E p \in Sweepers : RemUsers(p) \/ RemQuery(p) \/ RemDeliver(p) \/ RemUpdate(p)

ReminderSweepRaises ==
  \E p \in Sweepers : RemQueryRaises(p) \/ RemUpdateRaises(p)

\* the nudge and capsule sweeps over empty tables
IdleSweeps ==
  \E p \in Sweepers : NudgeQuery(p) \/ CapUsers(p) \/ CapQuery(p)

\* Reminders only: the loop and the manual trigger interleaved at their awaits.
NextReminder == Clock \/ Loop \/ ManualTrigger \/ ReminderSweep \/ IdleSweeps

SpecReminder == InitReminder /\ [][NextReminder]_vars

\* Reminders only, the background loop alone, store calls free to raise.
NextReminderFault == Clock \/ Loop \/ ReminderSweep \/ ReminderSweepRaises \/ IdleSweeps

SpecReminderFault == InitReminderFault /\ [][NextReminderFault]_vars

\* ------------------------------------------- get_due_reminders on any store
\* Every table of two reminders: each one of either user, due at 0 or at 2, in
\* any status, created in one of two moods
QueryIds == {1, 2}

QueryMoods == {<<"stressed", "working">>, <<"calm", "relaxing">>}

QueryObjects ==
  {ReminderData(u, -1, d, m[1], m[2], st) :
     u \in Users, d \in {0, 2}, m \in QueryMoods, st \in Statuses}

InitQuery ==
  /\ InitProcess({"rtool"}, FALSE, {0})
  /\ \E objs \in [QueryIds -> QueryObjects] : StoredReminders(objs)
  /\ nudges = <<>>
  /\ capsules = <<>>

ReminderTool ==
  \/ \E u \in Users : RemToolQuery(u)
  \/ RemToolItem
  \/ RemToolReturn

\* The get_due_reminders tool called for either user as time passes.
NextQuery == Clock \/ ReminderTool

SpecQuery == InitQuery /\ [][NextQuery]_vars

\* ------------------------------------------------- all three kinds of items
\* the nudge sweep over a store that does not raise
NudgeSteps ==
  \E p \in Sweepers : NudgeQuery(p) \/ NudgeDeliver(p) \/ NudgeMark(p)

\* reminders, nudges and capsules in the store; the background loop alone, a
\* store that never raises, any set of channels whose callback raises
InitFanOut ==
  /\ InitWith({"loop"}, FALSE, {0}, SUBSET ChannelSet)
  /\ StoredReminders(ReminderObjects)
  /\ nudges = NudgeTable
  /\ capsules = CapsuleTable

NextFanOut == Clock \/ Loop \/ ReminderSweep \/ NudgeSteps \/ CapsuleSweep

SpecFanOut == InitFanOut /\ [][NextFanOut]_vars

\* ------------------------------------------ the loop with calls free to raise
\* _create_reminder_message raises (adapt_response_tone, a malformed context):
\* caught by the sweep's except before any channel is called
RemMessageRaises(p) ==
  /\ pc[p] = "r_deliver"
  /\ faulty
  /\ Caught(p, "n_query")
  /\ UNCHANGED <<store, env, is_running, responses, history, runs>>

\* _create_time_capsule_message raises (fromisoformat of created_at): caught
\* by the sweep's except before any channel is called
CapMessageRaises(p) ==
  /\ pc[p] = "c_deliver"
  /\ faulty
  /\ Caught(p, CycleEnd(p))
  /\ UNCHANGED <<store, env, is_running, responses, history, runs>>

\* one due reminder, one due nudge and one due capsule of default_user
ContainReminders ==
  (1 :> ReminderData("default_user", -3, 0, "calm", "relaxing", "pending"))

ContainNudges ==
  (11 :> NudgeRow("default_user", 0, "contextual", "finished the report", 0, Null))

ContainCapsules ==
  (21 :> StoreCapsuleRow("default_user", -5, 0, 2))

\* the background loop alone; store calls and message construction free to
\* raise, the first channel's callback raising at every call
InitContain ==
  /\ InitWith({"loop"}, TRUE, {0}, {{"console"}})
  /\ StoredReminders(ContainReminders)
  /\ nudges = ContainNudges
  /\ capsules = ContainCapsules

SweepRaises ==
  \E p \in Sweepers : RemQueryRaises(p) \/ RemMessageRaises(p) \/ RemUpdateRaises(p)
                      \/ NudgeMarkRaises(p)
                      \/ CapMessageRaises(p) \/ CapMarkRaises(p)

\* every step of a loop task
LoopSteps ==
  \/ \E t \in LoopTasks : LoopHead(t) \/ WakeUp(t)
  \/ ReminderSweep \/ NudgeSteps \/ CapsuleSweep \/ SweepRaises

NextContain == Clock \/ Start \/ LoopSteps

\* The event loop runs a task whose await has completed, and a sleep returns
\* after the interval: a loop task that can take a step takes one.
SpecContain == InitContain /\ [][NextContain]_vars /\ WF_vars(LoopSteps)

\* -------------------------------------------------- start, stop and the loop
\* every step of one loop task, store calls and callbacks not raising
TaskStep(t) ==
  \/ LoopHead(t) \/ WakeUp(t)
  \/ RemUsers(t) \/ RemQuery(t) \/ RemDeliver(t) \/ RemUpdate(t)
  \/ NudgeQuery(t) \/ NudgeDeliver(t) \/ NudgeMark(t)
  \/ CapUsers(t) \/ CapQuery(t) \/ CapDeliver(t) \/ CapMark(t)

\* a caller that starts and stops the scheduler at any moment; room for a
\* second loop task; one due item of each kind in the store
InitLifecycle ==
  /\ InitWith({"loop", "loop2", "main"}, FALSE, {0}, {{}})
  /\ StoredReminders(ContainReminders)
  /\ nudges = ContainNudges
  /\ capsules = ContainCapsules

NextLifecycle == StartCall \/ StopCall \/ \E t \in LoopTasks : TaskStep(t)

\* The event loop runs every task whose await has completed, and a sleep
\* returns after the interval.
SpecLifecycle ==
  InitLifecycle /\ [][NextLifecycle]_vars /\ \A t \in LoopTasks : WF_vars(TaskStep(t))

\* two reminders of default_user due now
StopReminders ==
  (1 :> ReminderData("default_user", -3, 0, "calm", "relaxing", "pending"))
  @@ (2 :> ReminderData("default_user", -2, 0, "excited", "exercising", "pending"))

\* main() awaits scheduler.start() before serving ...
MainStart ==
  /\ Len(responses["main"]) = 0
  /\ StartCall

\* ... and scheduler.stop() when the server shuts down, at any moment
MainStop ==
  /\ Len(responses["main"]) = 1
  /\ StopCall

\* one loop task, and main starting and then stopping the scheduler
InitStop ==
  /\ InitWith({"loop", "main"}, FALSE, {0}, {{}})
  /\ StoredReminders(StopReminders)
  /\ nudges = ContainNudges
  /\ capsules = ContainCapsules

NextStop == Clock \/ MainStart \/ MainStop \/ \E t \in LoopTasks : TaskStep(t)

SpecStop ==
  InitStop /\ [][NextStop]_vars /\ \A t \in LoopTasks : WF_vars(TaskStep(t))

\* ------------------------------------------- manual trigger and loop cycle
\* reminders of two users due at 0 and at 1, and a completed one
TriggerReminders ==
  (1 :> ReminderData("default_user", -3, 0, "calm", "relaxing", "pending"))
  @@ (2 :> ReminderData("default_user", -2, 1, "excited", "exercising", "pending"))
  @@ (3 :> ReminderData("u2", -2, 0, "anxious", "working", "pending"))
  @@ (4 :> ReminderData("u2", -1, 0, "happy", "social", "completed"))

TriggerNudges ==
  (11 :> NudgeRow("default_user", 0, "contextual", "finished the report", 0, Null))
  @@ (12 :> NudgeRow("u2", 1, "daily", None, 0, Null))

TriggerCapsules ==
  (21 :> StoreCapsuleRow("default_user", -5, 0, 2))
  @@ (22 :> StoreCapsuleRow("u2", -7, 2, 4))

\* the loop and the manual trigger; calls that raise in some runs and in
\* others not
InitTrigger ==
  /\ \E f \in BOOLEAN : InitWith({"loop", "manual"}, f, {0}, {{}})
  /\ StoredReminders(TriggerReminders)
  /\ nudges = TriggerNudges
  /\ capsules = TriggerCapsules

\* the clock advances while no cycle and no trigger has begun
TickIdle ==
  /\ runs = 0
  /\ Tick

\* the first cycle of the loop, from the store as first stored
FirstCycle ==
  /\ runs = 0
  /\ \E t \in LoopTasks : LoopHead(t)

\* the first manual trigger, from the store as first stored
FirstTrigger ==
  /\ runs = 0
  /\ ManualTrigger

\* One invocation from the first state: either a cycle of the loop or a manual
\* trigger, with the scheduler started or not.
NextTrigger ==
  TickIdle \/ Start \/ FirstCycle \/ (\E t \in LoopTasks : WakeUp(t)) \/ FirstTrigger
  \/ ReminderSweep \/ NudgeSteps \/ CapsuleSweep \/ SweepRaises

SpecTrigger == InitTrigger /\ [][NextTrigger]_vars

\* ------------------------------------------------------------ nudge planner
\* NudgeManager.optimal_times
optimal_times ==
  [morning_person |-> <<7, 8, 9, 19, 20>>, night_owl |-> <<10, 11, 22, 23>>,
   regular_schedule |-> <<9, 13, 17, 21>>, flexible |-> <<8, 12, 16, 20>>]

\* datetime.date(), datetime.hour, datetime.minute and
\* datetime.combine(date, time(hour, minute))
DateOf(t) == t \div Day

HourOf(t) == (t % Day) \div Hour

MinuteOf(t) == t % Hour

Combine(date, hour, minute) == date * Day + hour * Hour + minute

\* _analyze_user_activity_pattern: the user's timeline rows of the last 14
\* days; the hours of their timestamps are the pattern's activity_hours
PatternRows(u) ==
  {e \in timeline : e.user_id = u /\ e.timestamp >= now - PatternWindow}

\* a classifier whose two thresholds are reached at exactly 40% and 30%
ClassifyAtLeast(rows) ==
  LET n == Cardinality(rows)
      early == Cardinality({e \in rows : HourOf(e.timestamp) >= 6
                                         /\ HourOf(e.timestamp) <= 10})
      late == Cardinality({e \in rows : HourOf(e.timestamp) >= 22
                                        \/ HourOf(e.timestamp) <= 2})
      varied == Cardinality({HourOf(e.timestamp) : e \in rows})
  IN IF n = 0 THEN "regular_schedule"
     ELSE IF early * 10 >= 4 * n THEN "morning_person"
     ELSE IF late * 10 >= 3 * n THEN "night_owl"
     ELSE IF varied > 8 THEN "flexible"
     ELSE "regular_schedule"

\* _classify_user_schedule_type, on the rows whose hours are activity_hours
_classify_user_schedule_type(rows) ==
  LET n == Cardinality(rows)
      early == Cardinality({e \in rows : HourOf(e.timestamp) >= 6
                                         /\ HourOf(e.timestamp) <= 10})
      late == Cardinality({e \in rows : HourOf(e.timestamp) >= 22
                                        \/ HourOf(e.timestamp) <= 2})
      varied == Cardinality({HourOf(e.timestamp) : e \in rows})
  IN IF n = 0 THEN "regular_schedule"
     ELSE IF early * 10 > 4 * n THEN "morning_person"
     ELSE IF late * 10 > 3 * n THEN "night_owl"
     ELSE IF varied > 8 THEN "flexible"
     ELSE "regular_schedule"

\* a draw with replacement: the same hour may be drawn twice
SamplesWithReplacement(hours) ==
  UNION {[1..k -> Range(hours)] : k \in {1, Min({2, Len(hours)})}}

\* random.sample(optimal_hours, min(random.choice([1, 2]), len(optimal_hours)))
Samples(hours) ==
  {s \in UNION {[1..k -> Range(hours)] : k \in {1, Min({2, Len(hours)})}} :
     \A i, j \in DOMAIN s : i # j => s[i] # s[j]}

\* random.randint(0, 59), drawn from the start and the middle of the hour
Minutes == {0, 30}

\* a placement that keeps an instant equal to now on today
NudgeTimeKeepsNow(today, hour, minute, t) ==
  LET nudge_time == Combine(today, hour, minute)
  IN IF nudge_time < t THEN nudge_time + Day ELSE nudge_time

\* nudge_time = combine(today, hour:minute); if nudge_time <= datetime.now():
\* nudge_time += timedelta(days=1)
NudgeTime(today, hour, minute, t) ==
  LET nudge_time == Combine(today, hour, minute)
  IN IF nudge_time <= t THEN nudge_time + Day ELSE nudge_time

\* The schedules lines 94-113 can build for a user type: `today` is read
\* first, the clock read again (at t) for the comparison
Plans(user_type, today, t) ==
  {[k \in DOMAIN hs |->
      [hour |-> hs[k], minute |-> ms[k], path |-> "planned",
       time |-> NudgeTime(today, hs[k], ms[k], t)]] :
     hs \in Samples(optimal_times[user_type]), ms \in [1..2 -> Minutes]}

\* the id of a stored nudge: f"daily_nudge_{user_id}_{timestamp}" and
\* f"contextual_nudge_{user_id}_{timestamp}"
DailyId(u, t) == <<"daily_nudge", u, t>>

ContextualId(u, t) == <<"contextual_nudge", u, t>>

\* a DELETE without its delivered = 0 condition
DeleteTodayAnyFlag(u, today) ==
  [i \in {j \in DOMAIN nudges : ~(/\ nudges[j].user_id = u
                                  /\ DateOf(nudges[j].scheduled_time) = today)}
     |-> nudges[i]]

\* DELETE FROM scheduled_nudges WHERE user_id = ? AND DATE(scheduled_time) = ?
\* AND delivered = 0  (no condition on nudge_type)
DeleteToday(u, today) ==
  [i \in {j \in DOMAIN nudges : ~(/\ nudges[j].user_id = u
                                  /\ DateOf(nudges[j].scheduled_time) = today
                                  /\ nudges[j].delivered = 0)} |-> nudges[i]]

\* schedule_daily_nudges up to its await of _store_scheduled_nudges: the
\* pattern (empty when its query raises), the user type, the hours and minutes
\* drawn, the instants. The clock may move on between the two readings.
Plan(u) ==
  /\ "planner" \in live
  /\ pc["planner"] = "idle"
  /\ runs < MaxRuns
  /\ runs' = runs + 1
  /\ \E t \in {now, now + 1}, rows \in {PatternRows(u)} \cup (IF faulty THEN {{}} ELSE {}) :
       /\ now' = t
       /\ \E plan \in Plans(_classify_user_schedule_type(rows), DateOf(now), t) :
            due' = [due EXCEPT !["planner"] = plan]
  /\ users' = [users EXCEPT !["planner"] = <<u>>]
  /\ idx' = [idx EXCEPT !["planner"] = 1]
  /\ pc' = [pc EXCEPT !["planner"] = "p_delete"]
  /\ UNCHANGED <<store, utc_offset, live, faulty, failing, is_running, uidx,
                 responses, history, order, attempts>>

\* the planning raises: the fallback, one nudge four hours from now
PlanRaises(u) ==
  /\ "planner" \in live
  /\ pc["planner"] = "idle"
  /\ faulty
  /\ runs < MaxRuns
  /\ runs' = runs + 1
  /\ due' = [due EXCEPT !["planner"] =
               <<[hour |-> HourOf(now + FallbackDelay),
                  minute |-> MinuteOf(now + FallbackDelay), path |-> "fallback",
                  time |-> now + FallbackDelay]>>]
  /\ users' = [users EXCEPT !["planner"] = <<u>>]
  /\ idx' = [idx EXCEPT !["planner"] = 1]
  /\ pc' = [pc EXCEPT !["planner"] = "p_delete"]
  /\ UNCHANGED <<store, env, is_running, uidx, responses, history, order, attempts>>

\* _store_scheduled_nudges: the DELETE of today's undelivered nudges
PlanDelete ==
  /\ pc["planner"] = "p_delete"
  /\ nudges' = DeleteToday(users["planner"][1], DateOf(now))
  /\ pc' = [pc EXCEPT !["planner"] = "p_insert"]
  /\ UNCHANGED <<reminders, capsules, timeline, created, env, is_running, locals,
                 history, runs>>

\* _store_scheduled_nudges: the next INSERT; an id the table already holds
\* raises an IntegrityError, which the except clause swallows
PlanInsert ==
  /\ pc["planner"] = "p_insert"
  /\ LET u == users["planner"][1]
         t == due["planner"][idx["planner"]].time
     IN IF DailyId(u, t) \in DOMAIN nudges
        THEN /\ pc' = [pc EXCEPT !["planner"] = "p_return"]
             /\ UNCHANGED <<nudges, idx>>
        ELSE /\ nudges' = nudges @@ (DailyId(u, t) :> NudgeRow(u, t, "daily", None, 0, Null))
             /\ idx' = [idx EXCEPT !["planner"] = @ + 1]
             /\ pc' = [pc EXCEPT !["planner"] =
                         IF LastItem("planner") THEN "p_return" ELSE "p_insert"]
  /\ UNCHANGED <<reminders, capsules, timeline, created, env, is_running, users,
                 uidx, due, responses, order, attempts, history, runs>>

\* the DELETE or an INSERT raises: swallowed by _store_scheduled_nudges
PlanStoreRaises ==
  /\ pc["planner"] \in {"p_delete", "p_insert"}
  /\ faulty
  /\ pc' = [pc EXCEPT !["planner"] = "p_return"]
  /\ UNCHANGED <<store, env, is_running, locals, history, runs>>

\* return scheduled_times (or [default_time]); the caller keeps every list it
\* was given, with the user and the time of the return
PlanReturn ==
  /\ pc["planner"] = "p_return"
  /\ responses' = [responses EXCEPT !["planner"] =
                     Append(@, [user_id |-> users["planner"][1], at |-> now,
                                times |-> [k \in DOMAIN due["planner"] |->
                                             due["planner"][k].time]])]
  /\ due' = [due EXCEPT !["planner"] = <<>>]
  /\ users' = [users EXCEPT !["planner"] = <<>>]
  /\ idx' = [idx EXCEPT !["planner"] = 1]
  /\ pc' = [pc EXCEPT !["planner"] = "idle"]
  /\ UNCHANGED <<store, env, is_running, uidx, order, attempts, history, runs>>

\* NudgeManager.context_triggers, in the order they are tried: name and delay
context_triggers ==
  <<[name |-> "post_workout", delay_minutes |-> 15],
    [name |-> "work_completion", delay_minutes |-> 10],
    [name |-> "stress_mention", delay_minutes |-> 60],
    [name |-> "social_activity", delay_minutes |-> 30]>>

\* check_contextual_nudge_triggers for a message holding keywords of the
\* triggers `hits`: the first trigger that matches stores one contextual nudge
\* (_store_contextual_nudge; an id the table already holds raises, swallowed)
ContextualTrigger(u, hits) ==
  /\ "planner" \in live
  /\ pc["planner"] = "idle"
  /\ runs < MaxRuns
  /\ runs' = runs + 1
  /\ LET k == Min({j \in DOMAIN context_triggers : context_triggers[j].name \in hits})
         t == now + context_triggers[k].delay_minutes
     IN nudges' = IF ContextualId(u, t) \in DOMAIN nudges THEN nudges
                  ELSE nudges @@ (ContextualId(u, t) :>
                                    NudgeRow(u, t, "contextual", hits, 0, Null))
  /\ UNCHANGED <<reminders, capsules, timeline, created, env, is_running, pc,
                 locals, history>>

\* the rows of a user's timeline with these timestamps
TimelineOf(u, stamps) == {[user_id |-> u, timestamp |-> t] : t \in stamps}

\* Activity histories of default_user before day 20: none; only one older
\* than 14 days; mornings; nights; nine different hours of the day; two hours
\* around noon; exactly two early entries out of five
Histories ==
  {TimelineOf("default_user", stamps) :
     stamps \in {{}, {Combine(1, 7, 0)},
                 {Combine(19, 7, 0), Combine(18, 8, 0), Combine(19, 12, 0)},
                 {Combine(19, 23, 0), Combine(18, 1, 0), Combine(19, 12, 0)},
                 {Combine(19, h, 0) : h \in 11..19},
                 {Combine(19, 12, 0), Combine(19, 13, 0)},
                 {Combine(19, 7, 0), Combine(18, 8, 0), Combine(19, 12, 0),
                  Combine(19, 13, 0), Combine(19, 14, 0)}}}

\* Clock readings of day 20: early morning, a minute before and exactly at an
\* optimal hour, afternoon, and the last minute of the day
PlanClock ==
  {Combine(20, 6, 0), Combine(20, 8, 59), Combine(20, 9, 0), Combine(20, 15, 0),
   Combine(20, 23, 59)}

\* The state after construction with the planner as the only invocation
InitPlanWith(clock, histories, tables, f) ==
  /\ now \in clock
  /\ utc_offset = 0
  /\ live = {"planner"}
  /\ faulty = f
  /\ failing = {}
  /\ is_running = FALSE
  /\ pc = [p \in Procs |-> IF p \in LoopTasks THEN "none" ELSE "idle"]
  /\ users = [p \in Procs |-> <<>>]
  /\ uidx = [p \in Procs |-> 1]
  /\ due = [p \in Procs |-> <<>>]
  /\ idx = [p \in Procs |-> 1]
  /\ responses = [p \in Procs |-> <<>>]
  /\ calls = [c \in ChannelSet |-> <<>>]
  /\ sentBy = <<>>
  /\ handed = <<>>
  /\ order = [p \in Procs |-> <<>>]
  /\ attempts = [p \in Procs |-> <<>>]
  /\ runs = 0
  /\ reminders = <<>>
  /\ created = <<>>
  /\ capsules = <<>>
  /\ timeline \in histories
  /\ nudges \in tables

\* schedule_daily_nudges on every history at every clock reading, an empty
\* nudge table, calls that raise in some runs and in others not
InitPlan == \E f \in BOOLEAN : InitPlanWith(PlanClock, Histories, {<<>>}, f)

\* the first call of schedule_daily_nudges
FirstPlan ==
  /\ runs = 0
  /\ \E u \in Users : Plan(u) \/ PlanRaises(u)

NextPlan == FirstPlan \/ PlanDelete \/ PlanInsert \/ PlanStoreRaises \/ PlanReturn

SpecPlan == InitPlan /\ [][NextPlan]_vars

\* --------------------------------------------- the planner over a live store
\* a daily nudge of default_user delivered this morning and a contextual
\* nudge of u2 for this afternoon
PlannerTable ==
  (DailyId("default_user", Combine(20, 9, 30)) :>
     NudgeRow("default_user", Combine(20, 9, 30), "daily", None, 1, <<Combine(20, 9, 30)>>))
  @@ (ContextualId("u2", Combine(20, 16, 0)) :>
        NudgeRow("u2", Combine(20, 16, 0), "contextual", {"stress_mention"}, 0, Null))

\* the clock readings of the planner's day: mid-morning and mid-afternoon
PlannerClock == {Combine(20, 10, 0), Combine(20, 15, 0)}

\* the clock moves on to a later reading
Advance ==
  /\ \E t \in PlannerClock : t > now /\ now' = t
  /\ UNCHANGED <<store, utc_offset, live, faulty, failing, is_running, pc, locals,
                 history, runs>>

\* the messages of the respond_to_nudge tool: the triggers whose keywords
\* they hold
Messages == {{"work_completion"}, {"stress_mention", "social_activity"}}

\* mid-morning of day 20, a user with no history, the nudge table empty or
\* holding earlier rows, calls that raise in some runs and in others not
InitPlanner ==
  \E f \in BOOLEAN :
    InitPlanWith({Combine(20, 10, 0)}, {{}}, {PlannerTable, [i \in {} |-> i]}, f)

\* schedule_nudges and respond_to_nudge called for default_user, one call at
\* a time
NextPlanner ==
  \/ Advance
  \/ Plan("default_user") \/ PlanRaises("default_user")
  \/ PlanDelete \/ PlanInsert \/ PlanStoreRaises \/ PlanReturn
  \/ \E hits \in Messages : ContextualTrigger("default_user", hits)

SpecPlanner == InitPlanner /\ [][NextPlanner]_vars

\* ------------------------------------------------- users without recent activity
\* a reminder of default_user created three hours ago, and a reminder of u2
\* created more than 30 days ago that falls due now (its timeline entry, written
\* by store_reminder, is as old)
DormantReminders ==
  (1 :> ReminderData("default_user", -3, 0, "calm", "relaxing", "pending"))
  @@ (2 :> ReminderData("u2", -800, 1, "anxious", "working", "pending"))

\* capsules of both users whose windows, [0, 9], hold every reading of the clock
DormantCapsules ==
  (21 :> StoreCapsuleRow("default_user", -5, 0, 9))
  @@ (23 :> StoreCapsuleRow("u2", -7, 0, 9))

\* the background loop alone, a store that never raises; u2 has either the old
\* reminder or no reminder at all (time capsules only)
InitDormant ==
  /\ InitWith({"loop"}, FALSE, {0}, {{}})
  /\ \E objs \in {DormantReminders, ContainReminders} : StoredReminders(objs)
  /\ nudges = ContainNudges
  /\ capsules = DormantCapsules

NextDormant == Clock \/ Start \/ \E t \in LoopTasks : TaskStep(t)

\* The event loop runs every task whose await has completed, and a sleep
\* returns after the interval.
SpecDormant ==
  InitDormant /\ [][NextDormant]_vars /\ \A t \in LoopTasks : WF_vars(TaskStep(t))

\* ------------------------------------------------ a callback that never returns
\* the arguments of the _deliver_message call an invocation is about to make
ArgsAt(p) ==
  IF pc[p] = "r_deliver" THEN ReminderArgs(users[p][uidx[p]], Current(p))
  ELSE IF pc[p] = "n_deliver" THEN NudgeArgs(Current(p))
  ELSE CapsuleArgs(users[p][uidx[p]], Current(p))

\* _deliver_message when the k-th callback never returns: `await callback(...)`
\* has no timeout, so the invocation stays suspended at that await, after the
\* callbacks before it were called
DeliverHangs(p, k) ==
  /\ pc[p] \in {"r_deliver", "n_deliver", "c_deliver"}
  /\ LET args == ArgsAt(p)
         made == SubSeq(FanOut(args), 1, k)
     IN /\ attempts' = [attempts EXCEPT ![p] = made]
        /\ calls' = CallAll(args.item_id, made)
        /\ sentBy' = IF args.item_id \in DOMAIN sentBy
                     THEN [sentBy EXCEPT ![args.item_id] = @ \cup {p}]
                     ELSE sentBy @@ (args.item_id :> {p})
        /\ order' = [order EXCEPT ![p] = Append(@, args.item_id)]
  /\ pc' = [pc EXCEPT ![p] = "hung"]
  /\ UNCHANGED <<store, env, is_running, users, uidx, due, idx, responses,
                 handed, runs>>

\* the background loop alone, a store that never raises, callbacks that do not
\* raise; one due item of each kind
InitHang ==
  /\ InitWith({"loop"}, FALSE, {0}, {{}})
  /\ StoredReminders(ContainReminders)
  /\ nudges = ContainNudges
  /\ capsules = ContainCapsules

\* every step of the loop, a callback free never to return
NextHang ==
  \/ Clock \/ Start
  \/ \E t \in LoopTasks : TaskStep(t) \/ \E k \in DOMAIN Channels : DeliverHangs(t, k)

\* The event loop runs every task whose await has completed, and a sleep
\* returns after the interval.
SpecHang ==
  InitHang /\ [][NextHang]_vars /\ \A t \in LoopTasks : WF_vars(TaskStep(t))

\* ------------------------------------------------------ the store unreachable
\* In this specification `faulty` says that the store is unreachable: while it
\* holds every query and every update raises, and none raises otherwise.
StoreGoesDown ==
  /\ ~faulty
  /\ faulty' = TRUE
  /\ UNCHANGED <<store, now, utc_offset, live, failing, is_running, pc, locals,
                 history, runs>>

StoreComesBack ==
  /\ faulty
  /\ faulty' = FALSE
  /\ UNCHANGED <<store, now, utc_offset, live, failing, is_running, pc, locals,
                 history, runs>>

\* the reminder sweep: _get_active_users falls back to ["default_user"] and
\* get_due_reminders and update_reminder_delivery raise while the store is
\* unreachable
OutageReminders(t) ==
  \/ RemUsers(t) /\ (faulty => users'[t] = <<"default_user">>)
  \/ RemQuery(t) /\ (faulty => uidx[t] > Len(users[t]))
  \/ RemQueryRaises(t)
  \/ RemDeliver(t)
  \/ RemUpdate(t) /\ ~faulty
  \/ RemUpdateRaises(t)

\* the nudge sweep: _get_due_nudges returns [] and _mark_nudge_delivered raises
OutageNudges(t) ==
  \/ NudgeQuery(t) /\ (faulty => pc'[t] = "c_users")
  \/ NudgeDeliver(t)
  \/ NudgeMark(t) /\ ~faulty
  \/ NudgeMarkRaises(t)

\* the capsule sweep over an empty time_capsules table: the fallback user
\* list, and _get_due_time_capsules returns []
OutageCapsules(t) ==
  \/ CapUsers(t) /\ (faulty => users'[t] = <<"default_user">>)
  \/ CapQuery(t)

OutageStep(t) ==
  LoopHead(t) \/ WakeUp(t) \/ OutageReminders(t) \/ OutageNudges(t) \/ OutageCapsules(t)

\* a reminder of default_user created three hours ago, and a reminder of u2
\* created 30 days less an hour ago (u2's last activity), both due now
AgeingReminders ==
  (1 :> ReminderData("default_user", -3, 0, "calm", "relaxing", "pending"))
  @@ (2 :> ReminderData("u2", -719, 0, "anxious", "working", "pending"))

\* the background loop alone, on a host on UTC, the store reachable or not
InitOutage ==
  /\ \E f \in BOOLEAN : InitWith({"loop"}, f, {0}, {{}})
  /\ StoredReminders(AgeingReminders)
  /\ nudges = ContainNudges
  /\ capsules = <<>>

\* time passes while the store is unreachable: whatever is late in this
\* specification is late because of an outage
OutageLasts ==
  /\ faulty
  /\ Tick

NextOutage ==
  \/ OutageLasts \/ Start \/ StoreGoesDown \/ StoreComesBack
  \/ \E t \in LoopTasks : OutageStep(t)

\* The event loop runs every task whose await has completed, and a sleep
\* returns after the interval.
SpecOutage ==
  InitOutage /\ [][NextOutage]_vars /\ \A t \in LoopTasks : WF_vars(OutageStep(t))

\* ------------------------------------------------------ the classifier alone
\* The timestamps activity histories are drawn from: the two days before day
\* 20; four early entries (two of them at hour 7), four late ones, and eight at
\* other hours, the hours next to both ranges among them
ActivityPool ==
  {Combine(19, h, 0) : h \in {6, 7, 10, 22, 23, 0, 2, 3, 5, 11, 12, 13, 14, 15, 21}}
  \cup {Combine(18, 7, 30)}

\* _analyze_user_activity_pattern and _classify_user_schedule_type, as
\* schedule_daily_nudges calls them first; the caller keeps the user type
Classify(u) ==
  /\ "planner" \in live
  /\ pc["planner"] = "idle"
  /\ runs = 0
  /\ runs' = runs + 1
  /\ responses' = [responses EXCEPT !["planner"] =
                     Append(@, [user_id |-> u, at |-> now,
                                type |-> _classify_user_schedule_type(PatternRows(u))])]
  /\ UNCHANGED <<store, env, is_running, pc, users, uidx, due, idx, order, attempts,
                 history>>

\* every history of default_user drawn from the pool, at the start of day 20
InitClassify ==
  InitPlanWith({Combine(20, 0, 0)},
               {TimelineOf("default_user", stamps) : stamps \in SUBSET ActivityPool},
               {<<>>}, FALSE)

NextClassify == \E u \in Users : Classify(u)

SpecClassify == InitClassify /\ [][NextClassify]_vars

\* ------------------------------------------ capsules whose windows overlap
\* two capsules of a user whose windows are [1, 4] and [2, 4], the second one
\* created first
OverlapCapsules ==
  (21 :> StoreCapsuleRow("default_user", -5, 1, 4))
  @@ (22 :> StoreCapsuleRow("default_user", -9, 2, 4))

\* a host whose local clock is UTC, a store that never raises
InitOverlap ==
  /\ InitProcess({"loop", "manual", "ctool"}, FALSE, {0})
  /\ reminders = <<>>
  /\ created = <<>>
  /\ timeline = CapsuleTimeline
  /\ capsules = OverlapCapsules
  /\ nudges = <<>>

SpecOverlap == InitOverlap /\ [][NextCapsule]_vars

\* ------------------------------------- nudges of two users, fire times mixed
\* three undelivered nudges whose fire times run against their insertion
\* order, the middle one owned by another user
MixedNudges ==
  (11 :> NudgeRow("default_user", 2, "contextual", "finished the report", 0, Null))
  @@ (12 :> NudgeRow("u2", 1, "daily", None, 0, Null))
  @@ (13 :> NudgeRow("default_user", 0, "contextual", "gym", 0, Null))

\* the loop and the manual trigger, store calls free to raise
InitPass ==
  /\ InitProcess({"loop", "manual"}, TRUE, UtcOffsets)
  /\ reminders = <<>>
  /\ created = <<>>
  /\ timeline = {}
  /\ capsules = <<>>
  /\ nudges = MixedNudges

NextPass == Clock \/ Loop \/ ManualTrigger \/ EmptySweeps \/ NudgeSweep

SpecPass == InitPass /\ [][NextPass]_vars

\* --------------------------- reminders under the sweeps and the tool at once
\* a pending reminder of each user, due at 0 and at 1
TallyReminders ==
  (1 :> ReminderData("default_user", -3, 0, "stressed", "working", "pending"))
  @@ (2 :> ReminderData("u2", -2, 1, "calm", "relaxing", "pending"))

\* the loop, the manual trigger and the get_due_reminders tool; a store that
\* never raises, a host on UTC
InitTally ==
  /\ InitProcess({"loop", "manual", "rtool"}, FALSE, {0})
  /\ StoredReminders(TallyReminders)
  /\ nudges = <<>>
  /\ capsules = <<>>

\* Reminders only: the loop, the manual trigger and the get_due_reminders
\* tool interleaved at their awaits.
NextTally ==
  Clock \/ Loop \/ ManualTrigger \/ ReminderSweep \/ IdleSweeps \/ ReminderTool

SpecTally == InitTally /\ [][NextTally]_vars

\* -------------------------------------- the loop after stop(), and the trigger
\* one loop task, main starting and then stopping the scheduler, and the
\* manual trigger called afterwards; one due item of each kind in the
\* store; calls that raise in some runs and in others not
InitHalt ==
  /\ \E f \in BOOLEAN : InitWith({"loop", "main", "manual"}, f, {0}, {{}})
  /\ StoredReminders(ContainReminders)
  /\ nudges = ContainNudges
  /\ capsules = ContainCapsules

\* trigger_delivery_check called once the scheduler was stopped and its loop
\* task has ended
TriggerAfterStop ==
  /\ Len(responses["main"]) = 2
  /\ \A t \in LoopTasks : pc[t] = "none"
  /\ ManualTrigger

NextHalt == MainStart \/ MainStop \/ TriggerAfterStop \/ LoopSteps

\* The event loop runs every task whose await has completed, and a sleep
\* returns after the interval.
SpecHalt ==
  InitHalt /\ [][NextHalt]_vars /\ \A t \in LoopTasks : WF_vars(TaskStep(t))

\* ------------------------------------------ the planner's replacement step
\* mid-morning of day 20, users with no history, the nudge table holding a
\* delivered daily nudge of default_user and an undelivered nudge of u2,
\* calls that raise in some runs and in others not
InitReplace ==
  \E f \in BOOLEAN : InitPlanWith({Combine(20, 10, 0)}, {{}}, {PlannerTable}, f)

\* the call of schedule_daily_nudges that follows the first
SecondPlan ==
  /\ runs = 1
  /\ \E u \in Users : Plan(u) \/ PlanRaises(u)

\* schedule_nudges called for either user and then once more, for the same
\* user or the other
NextReplace ==
  FirstPlan \/ SecondPlan \/ PlanDelete \/ PlanInsert \/ PlanStoreRaises \/ PlanReturn

SpecReplace == InitReplace /\ [][NextReplace]_vars

\* ===================================================================== claims
\* the ids of a list of rows or objects
Ids(rows) == {rows[k].id : k \in DOMAIN rows}

\* C1: for every nudge, the channel fan-out is performed by at most one of the
\* interleaved nudge-sweep invocations (background loop, manual trigger).
C1_FanOutByOneInvocation ==
  \A n \in DOMAIN nudges : Cardinality(IF n \in DOMAIN sentBy THEN sentBy[n] ELSE {}) <= 1

\* C2: every channel receives every nudge at most once, over any sequence of
\* ticks of the loop, also when the mark-delivered update raises after the fan-out.
C2_NudgeReceivedAtMostOnce ==
  \A c \in ChannelSet : \A n \in DOMAIN nudges : Count(calls[c], n) <= 1

\* one step: the flag stays, a query returns undelivered rows only, a channel
\* call is for the caller's current item
C3_Step ==
  /\ \A n \in DOMAIN nudges :
       nudges[n].delivered = 1 => n \in DOMAIN nudges' /\ nudges'[n].delivered = 1
  /\ \A p \in Procs :
       (pc[p] \in {"n_query", "idle"} /\ pc'[p] \in {"n_deliver", "nt_item"})
         => \A n \in Ids(due'[p]) : nudges[n].delivered = 0
  /\ \A n \in DOMAIN nudges : \A c \in ChannelSet :
       Count(calls'[c], n) > Count(calls[c], n)
         => \E p \in Sweepers : pc[p] = "n_deliver" /\ Current(p).id = n

\* C3: once a nudge's delivered flag is 1 no step resets it, no due-query
\* (the scheduler's or get_due_nudges) made from then on returns the nudge, and
\* a channel is only ever called with a nudge of the caller's own due list.
C3_DeliveredNeverSelectedAgain == [][C3_Step]_vars

\* C3 witness: the manual trigger queried after the loop had marked nudge 11:
\* its due list holds nudge 12 and not nudge 11.
C3_Witness ==
  /\ nudges[11].delivered = 1
  /\ pc["manual"] = "n_deliver"
  /\ Ids(due["manual"]) = {12}
  /\ 11 \in DOMAIN sentBy
  /\ sentBy[11] = {"loop"}

\* the undelivered capsules of u whose window holds t
InWindow(u, t) ==
  {c \in DOMAIN capsules : /\ capsules[c].user_id = u
                           /\ capsules[c].earliest_delivery <= t
                           /\ t <= capsules[c].latest_delivery
                           /\ capsules[c].delivered_at = Null}

\* one step of a sweep's capsule query
C4_Step ==
  \A p \in Sweepers :
    (/\ pc[p] = "c_query" /\ uidx[p] <= Len(users[p])
     /\ (pc'[p] = "c_deliver" \/ uidx'[p] = uidx[p] + 1))
      => Ids(due'[p]) = InWindow(users[p][uidx[p]], now)

\* C4: a capsule sweep's query for a user, made at time now, selects exactly
\* the user's capsules with earliest_delivery <= now <= latest_delivery and
\* delivered_at NULL; a capsule whose window has closed is never selected.
C4_SweepSelectsInsideWindow == [][C4_Step]_vars

\* C5: over any interleaving of capsule sweeps and get_due_time_capsules
\* calls, a capsule's content is handed out (fanned out to the channels by a
\* sweep, or returned by the tool) at most once.
C5_CapsuleHandedOutOnce ==
  \A c \in DOMAIN capsules :
    Count(calls["console"], c) + Count(handed, c) <= 1

\* one step keeps every delivered_at that is set
C6_Step ==
  \A c \in DOMAIN capsules :
    capsules[c].delivered_at # Null
      => c \in DOMAIN capsules' /\ capsules'[c].delivered_at = capsules[c].delivered_at

\* C6: once a capsule's delivered_at is non-NULL, no step changes it.
C6_DeliveredAtNeverChanges == [][C6_Step]_vars

\* the reminders created for u as pending and due at t
PendingDue(u, t) ==
  {r \in DOMAIN created : /\ created[r].user_id = u
                          /\ created[r].completion_status = "pending"
                          /\ created[r].due_at <= t}

\* how many reminders of its current list sweep p has handed over
Handled(p) == IF pc[p] = "r_update" THEN idx[p] ELSE idx[p] - 1

\* every hand-over reached every channel and is counted once its update ran;
\* a sweep hands over the reminders of its list one by one, in list order
C7_Counted ==
  /\ \A r \in DOMAIN reminders :
       /\ reminders[r].status = created[r].completion_status
       /\ \A c \in ChannelSet : Count(calls[c], r) = Count(calls["console"], r)
       /\ reminders[r].delivery_count =
            Count(calls["console"], r)
            - Cardinality({p \in Sweepers : pc[p] = "r_update" /\ Current(p).id = r})
  /\ \A p \in Sweepers :
       pc[p] \in {"r_deliver", "r_update"}
         => /\ Handled(p) <= Len(order[p])
            /\ SubSeq(order[p], Len(order[p]) - Handled(p) + 1, Len(order[p]))
                 = [k \in 1..Handled(p) |-> due[p][k].id]

\* one step: a query returns the user's pending reminders due now, once each;
\* a channel call is one call for the caller's current, due reminder; the
\* counter moves by 1 and only in the update that follows the hand-over
C7_Step ==
  /\ \A p \in Sweepers :
       (/\ pc[p] = "r_query" /\ uidx[p] <= Len(users[p])
        /\ (pc'[p] = "r_deliver" \/ uidx'[p] = uidx[p] + 1))
         => /\ Ids(due'[p]) = PendingDue(users[p][uidx[p]], now)
            /\ Len(due'[p]) = Cardinality(PendingDue(users[p][uidx[p]], now))
  /\ \A r \in DOMAIN reminders : \A c \in ChannelSet :
       Count(calls'[c], r) # Count(calls[c], r)
         => /\ Count(calls'[c], r) = Count(calls[c], r) + 1
            /\ created[r].due_at <= now
            /\ \E p \in Sweepers : pc[p] = "r_deliver" /\ Current(p).id = r
  /\ \A r \in DOMAIN reminders :
       reminders'[r].delivery_count # reminders[r].delivery_count
         => /\ reminders'[r].delivery_count = reminders[r].delivery_count + 1
            /\ \E p \in Sweepers : pc[p] = "r_update" /\ Current(p).id = r

\* C7: for a pending reminder of an active user, a reminder sweep whose query
\* runs at now < due_at does not select it; a sweep whose query runs at
\* now >= due_at selects it once, hands each selected reminder to every channel
\* once and then adds exactly 1 to delivery_count, leaving the status as stored,
\* so the counter equals the number of completed hand-overs (k after k sweeps).
C7_SweepDeliversDueReminderOnce == []C7_Counted /\ [][C7_Step]_vars

\* C7 witness: at now = 1 two sweeps have run to their end: the reminder due at
\* 1 was handed over twice and counts 2, the reminder due at 2 was never handed
\* over and counts 0.
C7_Witness ==
  /\ now = 1
  /\ runs = 2
  /\ \A p \in Sweepers : pc[p] \in {"none", "idle", "sleep"}
  /\ reminders[2].delivery_count = 2
  /\ Count(calls["puch"], 2) = 2
  /\ reminders[1].delivery_count = 0
  /\ Count(calls["puch"], 1) = 0

\* C8: get_due_reminders(user, now) returns, once each, exactly the reminders
\* created for that user with status pending and due_at <= now, and every
\* returned reminder carries the emotion and activity context it was created with.
C8_DueRemindersExact ==
  \A u \in Users :
    LET res == get_due_reminders(u, now)
    IN /\ Ids(res) = PendingDue(u, now)
       /\ Len(res) = Cardinality(PendingDue(u, now))
       /\ \A k \in DOMAIN res :
            /\ res[k].user_id = u
            /\ res[k].completion_status = "pending"
            /\ res[k].due_at <= now
            /\ res[k].emotional_context = created[res[k].id].emotional_context
            /\ res[k].activity_context = created[res[k].id].activity_context

\* C8 witness: the tool's query for default_user at now = 1 returned reminder 1
\* alone, with its context, from a table whose other reminder is a snoozed one
\* of the same user that was due as well.
C8_Witness ==
  /\ pc["rtool"] = "rt_item"
  /\ now = 1
  /\ users["rtool"] = <<"default_user">>
  /\ Len(due["rtool"]) = 1
  /\ due["rtool"][1].id = 1
  /\ due["rtool"][1].emotional_context = [primary_emotion |-> "stressed"]
  /\ due["rtool"][1].activity_context = [primary_activity |-> "working"]
  /\ created[2].user_id = "default_user"
  /\ created[2].completion_status = "snoozed"
  /\ created[2].due_at = 0

\* C9: within one reminder sweep, the reminders of a user are handed to the
\* channels in ascending due_at order.
C9_AscendingDueOrder ==
  \A p \in Sweepers : \A i, j \in DOMAIN order[p] :
    (i < j /\ created[order[p][i]].user_id = created[order[p][j]].user_id)
      => created[order[p][i]].due_at <= created[order[p][j]].due_at

\* C9 witness: the loop's sweep found the reminders due at 0, 1 and 2 (ids 3,
\* 2, 1) and has handed over all three.
C9_Witness ==
  /\ pc["loop"] = "r_update"
  /\ Len(due["loop"]) = 3
  /\ order["loop"] = <<3, 2, 1>>

\* one step that ends a reminder sweep from an item's update
C10_Step ==
  \A p \in Sweepers :
    (pc[p] = "r_update" /\ pc'[p] = "n_query")
      => /\ LastItem(p)
         /\ \A k \in (uidx[p] + 1)..Len(users[p]) : DueReminderIds(users[p][k], now) = {}

\* C10: when a reminder's store update raises in a sweep, no due reminder of
\* the same user and no due reminder of a later user of that sweep is left
\* unprocessed by the sweep.
C10_FailingItemBlocksNothing == [][C10_Step]_vars

\* the positions of a sweep between _deliver_message and the store update
AfterDeliver == {"r_update", "n_mark", "c_mark"}

BeforeDeliver == {"r_deliver", "n_deliver", "c_deliver"}

\* how many items of its current list sweep p has handed to the channels
Done(p) == IF pc[p] \in AfterDeliver THEN idx[p] ELSE idx[p] - 1

\* after a fan-out: one call per registered callback, in registration order,
\* all with the arguments of the current item; every item of the list up to
\* the current one has been fanned out, in list order
C11_Fanned ==
  \A p \in Sweepers :
    /\ pc[p] \in AfterDeliver
         => /\ Len(attempts[p]) = Len(Channels)
            /\ \A k \in DOMAIN attempts[p] :
                 /\ attempts[p][k].channel = Channels[k]
                 /\ attempts[p][k].args = attempts[p][1].args
                 /\ attempts[p][k].args.item_id = Current(p).id
                 /\ attempts[p][k].args.user_id =
                      (IF pc[p] = "n_mark" THEN Current(p).row.user_id
                       ELSE users[p][uidx[p]])
    /\ pc[p] \in AfterDeliver \cup BeforeDeliver
         => /\ Done(p) <= Len(order[p])
            /\ SubSeq(order[p], Len(order[p]) - Done(p) + 1, Len(order[p]))
                 = [k \in 1..Done(p) |-> due[p][k].id]

\* one step: a fan-out calls every channel exactly once more for the item,
\* whether or not a callback raises, and the sweep goes on to the item's store
\* update; no other step calls a channel
C11_Step ==
  \A p \in Sweepers :
    IF pc[p] \in BeforeDeliver /\ pc'[p] # pc[p]
    THEN /\ pc'[p] \in AfterDeliver
         /\ due'[p] = due[p] /\ idx'[p] = idx[p]
         /\ \A c \in ChannelSet :
              /\ Count(calls'[c], Current(p).id) = Count(calls[c], Current(p).id) + 1
              /\ \A i \in DOMAIN calls'[c] \ {Current(p).id} :
                   Count(calls'[c], i) = Count(calls[c], i)
    ELSE (\A q \in Sweepers : ~(pc[q] \in BeforeDeliver /\ pc'[q] # pc[q]))
           => calls' = calls

\* C11: for every item a sweep discovers, every registered callback is called
\* exactly once, in registration order, with the same arguments; a callback
\* that raises stops neither the callbacks after it nor the sweep, and is not
\* called again.
C11_EveryCallbackOnce == []C11_Fanned /\ [][C11_Step]_vars

\* C11 witness: the first registered callback raises; the loop has called both
\* callbacks for reminder 3 and then for reminder 2, and stands before the
\* store update of reminder 2.
C11_Witness ==
  /\ failing = {"console"}
  /\ pc["loop"] = "r_update"
  /\ order["loop"] = <<3, 2>>
  /\ attempts["loop"][1].raised
  /\ attempts["loop"][2].channel = "puch"
  /\ ~attempts["loop"][2].raised
  /\ Count(calls["puch"], 3) = 1
  /\ Count(calls["puch"], 2) = 1

\* the positions of an invocation inside each of the three sweeps
RemStates == {"r_users", "r_query", "r_deliver", "r_update"}

NudgeStates == {"n_query", "n_deliver", "n_mark"}

CapStates == {"c_users", "c_query", "c_deliver", "c_mark"}

\* the loop task exists as long as the scheduler is running
C12_LoopAlive == is_running => \E t \in LoopTasks : pc[t] # "none"

\* C12: while the scheduler is running, an exception raised inside a sweep (by
\* the store, by message construction or by a channel call) is contained: the
\* loop task never ends, a sweep that was entered is followed by the next sweep
\* of the same cycle (the reminder sweep by the nudge sweep, the nudge sweep by
\* the capsule sweep, the capsule sweep by the interval wait), and after the
\* wait the loop begins another cycle.
C12_SweepExceptionContained ==
  /\ []C12_LoopAlive
  /\ \A t \in LoopTasks :
       /\ (pc[t] \in RemStates) ~> (pc[t] = "n_query")
       /\ (pc[t] \in NudgeStates) ~> (pc[t] = "c_users")
       /\ (pc[t] \in CapStates) ~> (pc[t] = "sleep")
       /\ (pc[t] = "sleep" /\ runs < MaxRuns) ~> (pc[t] = "r_users")

\* C12 witness: in the first cycle the store raised after the channels were
\* called for reminder 1 (called, yet not counted) and again after they were
\* called for nudge 11 (called, yet not marked); the loop went on to the
\* capsule sweep, slept, and is now inside its second cycle.
C12_Witness ==
  /\ runs = 2
  /\ pc["loop"] \in RemStates
  /\ Count(calls["puch"], 1) = 1
  /\ reminders[1].delivery_count = 0
  /\ Count(calls["puch"], 11) = 1
  /\ nudges[11].delivered = 0

\* the caller's log grew by a call of this kind
Called(call) ==
  /\ Len(responses'["main"]) = Len(responses["main"]) + 1
  /\ responses'["main"][Len(responses'["main"])].call = call

\* the loop tasks that exist
Tasks == {t \in LoopTasks : pc[t] # "none"}

C13_Step ==
  (is_running /\ Called("start")) =>
     /\ UNCHANGED <<store, env, is_running, pc, users, uidx, due, idx, order,
                    attempts, history, runs>>
     /\ Tasks' = Tasks

\* C13: a call of start() while the scheduler is already running changes no
\* state and creates no additional loop task, so start() followed by start()
\* leaves what one start() leaves.
C13_StartWhileRunningIsNoOp == [][C13_Step]_vars

\* C13 witness: start() was called, and called again while the loop task stood
\* before a delivery; there is still one loop task.
C13_Witness ==
  /\ Len(responses["main"]) = 2
  /\ responses["main"][1] = [call |-> "start", loop |-> "none"]
  /\ responses["main"][2] = [call |-> "start", loop |-> "r_deliver"]
  /\ is_running
  /\ Tasks = {"loop"}

\* the items an invocation has selected and whose delivery it has not yet
\* recorded
Remaining(p) ==
  IF pc[p] \in BeforeDeliver \cup AfterDeliver
  THEN {due[p][k].id : k \in idx[p]..Len(due[p])}
  ELSE {}

\* the item went to every channel and the store recorded its delivery
Completed(i) ==
  /\ \A c \in ChannelSet : Count(calls[c], i) >= 1
  /\ i \in DOMAIN reminders => reminders[i].delivery_count >= 1
  /\ i \in DOMAIN nudges => nudges[i].delivered = 1
  /\ i \in DOMAIN capsules => capsules[i].delivered_at # Null

InCycle(t) == pc[t] \in RemStates \cup NudgeStates \cup CapStates

C14_Step ==
  /\ Called("stop") => UNCHANGED <<store, env, pc, users, uidx, due, idx, order,
                                   attempts, history, runs>>
  /\ \A t \in LoopTasks :
       /\ (pc[t] = "head" /\ pc'[t] = "r_users") => is_running
       /\ \A i \in Remaining(t) \ Remaining(t)' : Completed(i)'
       /\ (pc[t] \in RemStates /\ pc'[t] \notin RemStates) => pc'[t] = "n_query"
       /\ (pc[t] \in NudgeStates /\ pc'[t] \notin NudgeStates) => pc'[t] = "c_users"
       /\ (pc[t] \in CapStates /\ pc'[t] \notin CapStates) => pc'[t] = "sleep"

UsersDone(t) == pc[t] \in {"r_query", "c_query"} /\ uidx[t] > Len(users[t])

\* the nudge sweep found nothing due, or stands at the recording of its last nudge
NudgesDone(t) ==
  \/ pc[t] = "n_query" /\ SchedulerDueNudges = <<>>
  \/ pc[t] = "n_mark" /\ LastItem(t)

C15_Step ==
  \A t \in LoopTasks :
    pc'[t] # pc[t] =>
      /\ pc[t] = "none" => pc'[t] = "head"
      /\ pc[t] = "head" => pc'[t] \in {"r_users", "none"}
      /\ pc[t] \in RemStates =>
           \/ pc'[t] \in RemStates \ {"r_users"}
           \/ pc'[t] = "n_query" /\ UsersDone(t)
      /\ pc[t] \in NudgeStates =>
           \/ pc'[t] \in NudgeStates \ {"n_query"}
           \/ pc'[t] = "c_users" /\ NudgesDone(t)
      /\ pc[t] \in CapStates =>
           \/ pc'[t] \in CapStates \ {"c_users"}
           \/ pc'[t] = "sleep" /\ UsersDone(t)
      /\ pc[t] = "sleep" => pc'[t] = "head"

\* C15: a loop task runs, in every cycle, the reminder sweep, then the nudge
\* sweep, then the capsule sweep: the nudge sweep starts only when the reminder
\* sweep has handled its last user, the capsule sweep only when the nudge sweep
\* has recorded its last nudge, the interval wait only when the capsule sweep
\* has handled its last user, and the next cycle only after the wait.
C15_SweepsInOrder == [][C15_Step]_vars

\* C15 witness: in its first cycle the loop has delivered and recorded the
\* reminder and then the nudge, and stands before the delivery of the capsule.
C15_Witness ==
  /\ runs = 1
  /\ pc["loop"] = "c_deliver"
  /\ Completed(1)
  /\ Completed(11)
  /\ Current("loop").id = 21
  /\ Count(calls["console"], 21) = 0

\* the rows first stored
TriggerRows == [i \in DOMAIN TriggerReminders |-> StoreReminderRow(TriggerReminders[i])]

\* what is due at t in the tables first stored
TriggerDue(t) ==
  {i \in DOMAIN TriggerRows : TriggerRows[i].due_at <= t /\ TriggerRows[i].status = "pending"}
  \cup {i \in DOMAIN TriggerNudges : TriggerNudges[i].scheduled_time <= t}
  \cup {i \in DOMAIN TriggerCapsules : TriggerCapsules[i].earliest_delivery <= t}

\* every item due at t went once to every channel and was recorded once, at
\* t; nothing else was touched
OneCycleEffects(t) ==
  /\ \A c \in ChannelSet : calls[c] = [i \in TriggerDue(t) |-> 1]
  /\ reminders = [i \in DOMAIN TriggerRows |->
                    IF i \in TriggerDue(t)
                    THEN [TriggerRows[i] EXCEPT !.delivery_count = 1]
                    ELSE TriggerRows[i]]
  /\ nudges = [i \in DOMAIN TriggerNudges |->
                 IF i \in TriggerDue(t)
                 THEN [TriggerNudges[i] EXCEPT !.delivered = 1, !.delivered_at = <<t>>]
                 ELSE TriggerNudges[i]]
  /\ capsules = [i \in DOMAIN TriggerCapsules |->
                   IF i \in TriggerDue(t)
                   THEN [TriggerCapsules[i] EXCEPT !.delivered_at = <<t>>]
                   ELSE TriggerCapsules[i]]

\* one loop cycle ran from the first state, and nothing else
LoopCycleAlone == runs = 1 /\ pc["loop"] = "sleep"

\* one manual trigger ran from the first state, and nothing else
TriggerAlone == runs = 1 /\ pc["manual"] = "idle" /\ pc["loop"] \in {"none", "head"}

C16_SameEffects ==
  (~faulty /\ (LoopCycleAlone \/ TriggerAlone)) => OneCycleEffects(now)

C16_Step ==
  pc'["manual"] # pc["manual"] =>
    /\ pc["manual"] = "idle" => pc'["manual"] = "r_users"
    /\ pc["manual"] \in RemStates => pc'["manual"] \in RemStates \cup {"n_query"}
    /\ pc["manual"] \in NudgeStates => pc'["manual"] \in NudgeStates \cup {"c_users"}
    /\ pc["manual"] \in CapStates => pc'["manual"] \in CapStates \cup {"idle"}

\* C16: the manual trigger runs the reminder, nudge and capsule sweeps once
\* each in the order of a loop cycle, whether or not the scheduler is running,
\* and from the same store at the same time it leaves the channel calls and the
\* store rows that one loop cycle leaves; whatever raises inside, the trigger
\* goes on through its sweeps and returns to its caller.
C16_TriggerIsOneCycle == []C16_SameEffects /\ [][C16_Step]_vars

\* C16 witness: with the scheduler running and its loop task not yet in its
\* first cycle, a manual trigger at 1 has delivered and recorded the three due
\* reminders, both nudges and the due capsule, and has returned.
C16_Witness ==
  /\ ~faulty
  /\ is_running
  /\ TriggerAlone
  /\ now = 1
  /\ TriggerDue(now) = {1, 2, 3, 11, 12, 21}
  /\ \A i \in TriggerDue(now) : Completed(i) /\ sentBy[i] = {"manual"}

\* the planner returns: the step that hands the list to the caller
Returns == pc["planner"] = "p_return" /\ pc'["planner"] = "idle"

\* the first occurrence of hour:minute strictly after t: today when today's
\* instant is after t, else the next day
NextOccurrence(hour, minute, t) ==
  IF Combine(DateOf(t), hour, minute) > t
  THEN Combine(DateOf(t), hour, minute)
  ELSE Combine(DateOf(t) + 1, hour, minute)

C17_Step ==
  Returns =>
    LET plan == due["planner"]
        returned == responses'["planner"][Len(responses'["planner"])].times
    IN /\ Len(returned) >= 1
       /\ Len(returned) = Len(plan)
       /\ \A k \in DOMAIN returned :
            /\ returned[k] > now
            /\ plan[k].path = "planned" =>
                 returned[k] = NextOccurrence(plan[k].hour, plan[k].minute, now)

\* C17: for every activity history, the empty one included,
\* schedule_daily_nudges returns at least one instant, every returned instant
\* lies strictly after now, and the instant of a drawn hour:minute is today's
\* when that is after now and the next day's, at the same hour:minute, exactly
\* when today's is not after now.
C17_PlannedAfterNow == [][C17_Step]_vars

\* C17 witness: planning at 09:00 sharp for a user with no history drew 09:00
\* and 13:30: the first went to tomorrow, the second stays today.
C17_Witness ==
  /\ timeline = {}
  /\ now = Combine(20, 9, 0)
  /\ pc["planner"] = "idle"
  /\ responses["planner"] =
       <<[user_id |-> "default_user", at |-> now,
          times |-> <<Combine(21, 9, 0), Combine(20, 13, 30)>>]>>

\* the undelivered nudges of a user that fire after t
Upcoming(table, u, t) ==
  {i \in DOMAIN table : /\ table[i].user_id = u
                        /\ table[i].delivered = 0
                        /\ table[i].scheduled_time > t}

C18_Step ==
  Returns => Upcoming(nudges', users["planner"][1], now) # {}

\* C18: when schedule_daily_nudges returns, by whichever path (the plan, the
\* fallback after the planning raised, a store write that raised), the store
\* holds at least one undelivered nudge of the user that fires strictly after
\* now.
C18_NudgeStoredAtReturn == [][C18_Step]_vars

\* the fire-at instants of a user's undelivered daily nudges dated `today`
TodayDaily(u, today) ==
  {nudges[i].scheduled_time :
     i \in {j \in DOMAIN nudges : /\ nudges[j].user_id = u
                                  /\ nudges[j].nudge_type = "daily"
                                  /\ nudges[j].delivered = 0
                                  /\ DateOf(nudges[j].scheduled_time) = today}}

\* C19: when the planner has run twice for the same user on the same day, with
\* no store call raising, that user's undelivered daily nudges dated today are
\* exactly the second run's nudges of today: the first run's are gone, the
\* second run's are all there, none twice.
C19_SecondRunReplacesFirst ==
  LET log == responses["planner"]
      n == Len(log)
  IN (/\ ~faulty
      /\ pc["planner"] = "idle"
      /\ n >= 2
      /\ log[n - 1].user_id = log[n].user_id
      /\ DateOf(log[n - 1].at) = DateOf(now)
      /\ DateOf(log[n].at) = DateOf(now))
     => TodayDaily(log[n].user_id, DateOf(now))
          = {t \in Range(log[n].times) : DateOf(t) = DateOf(now)}

\* a step of _store_scheduled_nudges
StoreStep == pc["planner"] \in {"p_delete", "p_insert"} /\ pc'["planner"] # pc["planner"]

C20_Step ==
  StoreStep =>
    \A i \in DOMAIN nudges :
      nudges[i].nudge_type = "contextual" =>
        i \in DOMAIN nudges' /\ nudges'[i] = nudges[i]

\* C20: the planner's replacement of a user's daily nudges leaves every
\* contextual nudge in the store, with the fire-at instant, the payload and
\* the delivered flag it had.
C20_ContextualUntouched == [][C20_Step]_vars

\* the item a sweep's invocation has just handed to the channels
JustDelivered(p, at, id) ==
  /\ pc[p] = at
  /\ Current(p).id = id
  /\ order[p] # <<>>
  /\ order[p][Len(order[p])] = id

\* one step leaves a reminder as it is or adds one to its delivery_count, for
\* the reminder a sweep has just delivered
C21_Reminders ==
  /\ DOMAIN reminders' = DOMAIN reminders
  /\ \A r \in DOMAIN reminders :
       \/ reminders'[r] = reminders[r]
       \/ /\ reminders'[r] = [reminders[r] EXCEPT !.delivery_count = @ + 1]
          /\ \E p \in Sweepers : JustDelivered(p, "r_update", r)

\* ... leaves a nudge as it is or sets its delivered flag and delivered_at
C21_Nudges ==
  /\ DOMAIN nudges' = DOMAIN nudges
  /\ \A n \in DOMAIN nudges :
       \/ nudges'[n] = nudges[n]
       \/ /\ nudges'[n] = [nudges[n] EXCEPT !.delivered = 1, !.delivered_at = <<SqlNow>>]
          /\ \E p \in Sweepers : JustDelivered(p, "n_mark", n)

\* ... leaves a capsule as it is or sets its delivered_at
C21_Capsules ==
  /\ DOMAIN capsules' = DOMAIN capsules
  /\ \A c \in DOMAIN capsules :
       \/ capsules'[c] = capsules[c]
       \/ /\ capsules'[c] = [capsules[c] EXCEPT !.delivered_at = <<SqlNow>>]
          /\ \E p \in Sweepers : JustDelivered(p, "c_mark", c)

\* ... and changes at most one item, and no timeline entry
C21_Step ==
  /\ C21_Reminders
  /\ C21_Nudges
  /\ C21_Capsules
  /\ timeline' = timeline
  /\ Cardinality({r \in DOMAIN reminders : reminders'[r] # reminders[r]})
     + Cardinality({n \in DOMAIN nudges : nudges'[n] # nudges[n]})
     + Cardinality({c \in DOMAIN capsules : capsules'[c] # capsules[c]}) <= 1

C22_Due(r) ==
  /\ is_running
  /\ runs < MaxRuns
  /\ r \in DOMAIN reminders
  /\ reminders[r].status = "pending"
  /\ reminders[r].due_at <= now

\* C22: while the loop is running and the store does not raise, every pending
\* reminder that is due is eventually handed to the channels, whoever owns it:
\* also the reminder of a user with no reminder created in the last 30 days and
\* no timeline entry of the last 7 days.
C22_PendingReminderDelivered ==
  \A r \in DOMAIN DormantReminders : C22_Due(r) ~> (Count(calls["console"], r) >= 1)

\* the loop is running, with a cycle still to begin, and capsule c is
\* undelivered inside its window
C23_Open(c) ==
  /\ is_running
  /\ runs < MaxRuns
  /\ capsules[c].delivered_at = Null
  /\ capsules[c].earliest_delivery <= now
  /\ now <= capsules[c].latest_delivery

C23_DeliveredInWindow(c) ==
  /\ capsules[c].delivered_at # Null
  /\ capsules[c].delivered_at[1] >= capsules[c].earliest_delivery
  /\ capsules[c].delivered_at[1] <= capsules[c].latest_delivery

\* C23: while the loop is running, every undelivered time capsule whose window
\* is open is eventually delivered at an instant inside its window, whoever
\* owns it: also the capsule of a user who has stored nothing but time capsules
\* and has no recent reminder or timeline entry.
C23_CapsuleDeliveredInWindow ==
  \A c \in DOMAIN DormantCapsules : C23_Open(c) ~> C23_DeliveredInWindow(c)

\* a sweep hands the current nudge to the channels: its fire-at is not after
\* the process clock
C24_Handed ==
  \A p \in Sweepers :
    (pc[p] = "n_deliver" /\ pc'[p] = "n_mark")
      => nudges[Current(p).id].scheduled_time <= now

\* a sweep's query returns rows: every undelivered nudge whose fire-at is not
\* after the process clock is among them (and when it returns none although
\* the store did not raise, there is no such nudge)
C24_Selected ==
  \A p \in Sweepers :
    /\ (pc[p] = "n_query" /\ pc'[p] = "n_deliver") => DueNudgeIds(now) \subseteq Ids(due'[p])
    /\ (pc[p] = "n_query" /\ pc'[p] = "c_users" /\ ~faulty) => DueNudgeIds(now) = {}

C24_Step == C24_Handed /\ C24_Selected

\* C24: the nudge sweep hands a nudge to the channels only when its fire-at is
\* at or before now, and its query selects every undelivered nudge with fire-at
\* at or before now, now being the process clock datetime.now() on which
\* fire-at was written.
C24_DueOnTheProcessClock == [][C24_Step]_vars

\* C25: a delivery callback that never returns does not stall the scheduler:
\* a loop task that has entered a cycle, or waits for a callback, eventually
\* gets through the remaining items and sweeps of the cycle to the interval
\* wait.
C25_CallbackCannotStall ==
  \A t \in LoopTasks :
    (pc[t] \in RemStates \cup NudgeStates \cup CapStates \cup {"hung"}) ~> (pc[t] = "sleep")

\* the last _deliver_message of invocation p called every registered callback,
\* in registration order, for item id
AllAttempted(p, id) ==
  /\ Len(attempts[p]) = Len(Channels)
  /\ \A k \in DOMAIN Channels :
       /\ attempts[p][k].channel = Channels[k]
       /\ attempts[p][k].args.item_id = id
  /\ order[p] # <<>>
  /\ order[p][Len(order[p])] = id

\* the store holds item id as delivered
Marked(id) ==
  \/ id \in DOMAIN nudges /\ nudges[id].delivered = 1
  \/ id \in DOMAIN capsules /\ capsules[id].delivered_at # Null

\* the items whose mark is set by this step
NewlyMarked ==
  {n \in DOMAIN nudges : nudges[n].delivered = 0 /\ nudges'[n].delivered = 1}
  \cup {c \in DOMAIN capsules : capsules[c].delivered_at = Null
                                /\ capsules'[c].delivered_at # Null}

C26_Step ==
  /\ \A p \in Sweepers :
       \* the step from the mark position follows a complete fan-out of p
       /\ (pc[p] \in {"n_mark", "c_mark"} /\ (pc'[p] # pc[p] \/ idx'[p] # idx[p]))
            => AllAttempted(p, Current(p).id)
       \* the fan-out for the next item follows the mark of the item before it
       /\ (pc[p] \in {"n_deliver", "c_deliver"} /\ pc'[p] \in {"n_mark", "c_mark"}
           /\ idx[p] > 1)
            => Marked(due[p][idx[p] - 1].id)
  \* a mark not set by a tool is set by a sweep standing at the mark position
  \* of that item
  /\ \A i \in NewlyMarked :
       (\A q \in Tools : pc'[q] = pc[q] /\ idx'[q] = idx[q]) =>
       \E p \in Sweepers : /\ pc[p] \in {"n_mark", "c_mark"}
                           /\ Current(p).id = i
                           /\ AllAttempted(p, i)

\* C26: in the nudge sweep and in the capsule sweep an item is marked delivered
\* only after every registered callback was called for it by that sweep
\* (raising or not); no mark is set by a sweep that did not run the fan-out for
\* the item first; and the mark of an item precedes the fan-out of the next.
C26_MarkAfterFanOut == [][C26_Step]_vars

\* C26 witness: with the console callback raising, nudge 11 was marked after
\* both callbacks were called for it; in the capsule sweep capsule 21 is marked
\* and the loop stands before the fan-out of capsule 22.
C26_Witness ==
  /\ failing = {"console"}
  /\ nudges[11].delivered = 1
  /\ Count(calls["console"], 11) = 1
  /\ Count(calls["puch"], 11) = 1
  /\ pc["loop"] = "c_deliver"
  /\ idx["loop"] = 2
  /\ Current("loop").id = 22
  /\ capsules[21].delivered_at # Null
  /\ Count(calls["puch"], 21) = 1

\* the loop keeps ticking: a cycle entered reaches the interval wait, and the
\* wait is followed by the next cycle
C27_LoopTicks ==
  \A t \in LoopTasks :
    /\ (pc[t] \in RemStates \cup NudgeStates \cup CapStates) ~> (pc[t] = "sleep")
    /\ (pc[t] = "sleep" /\ runs < MaxRuns) ~> (pc[t] = "r_users")

\* while the store is unreachable no row is marked, counted or removed, and no
\* step ever removes a row
C27_NothingLost ==
  /\ faulty => UNCHANGED <<reminders, nudges, capsules>>
  /\ DOMAIN reminders \subseteq DOMAIN reminders'
  /\ DOMAIN nudges \subseteq DOMAIN nudges'

\* the loop is running with a cycle still to begin and the store is reachable
C27_Reachable == ~faulty /\ is_running /\ runs < MaxRuns

\* once the store is reachable, every due nudge is delivered and marked, and
\* every due pending reminder is handed to the channels once more, unless the
\* store becomes unreachable again first
C27_Recovery ==
  /\ \A n \in DOMAIN ContainNudges :
       (C27_Reachable /\ nudges[n].delivered = 0 /\ nudges[n].scheduled_time <= now)
         ~> (nudges[n].delivered = 1 \/ faulty)
  /\ \A r \in DOMAIN AgeingReminders : \A k \in 0..MaxRuns :
       (C27_Reachable /\ reminders[r].status = "pending" /\ reminders[r].due_at <= now
        /\ Count(calls["console"], r) = k)
         ~> (Count(calls["console"], r) > k \/ faulty)

\* C27: however long the store is unreachable (every query and every update
\* raises), the loop keeps ticking, no reminder or nudge is marked, counted or
\* lost meanwhile, and once the store is reachable again the next cycle
\* delivers every due nudge and every due pending reminder.
C27_OutageOnlyDelays ==
  /\ C27_LoopTicks
  /\ [][C27_NothingLost]_vars
  /\ C27_Recovery

\* the hours of a history that lie in lo..hi, counted with repetitions
HoursIn(rows, lo, hi) ==
  Cardinality({e \in rows : HourOf(e.timestamp) >= lo /\ HourOf(e.timestamp) <= hi})

Early(rows) == HoursIn(rows, 6, 10)

Late(rows) == HoursIn(rows, 22, 23) + HoursIn(rows, 0, 2)

DistinctHours(rows) == {HourOf(e.timestamp) : e \in rows}

\* the archetype the claim assigns: thresholds reached at 40% and at 30%
ArchetypeAtLeast(rows) ==
  IF rows = {} THEN "regular_schedule"
  ELSE IF 100 * Early(rows) >= 40 * Cardinality(rows) THEN "morning_person"
  ELSE IF 100 * Late(rows) >= 30 * Cardinality(rows) THEN "night_owl"
  ELSE IF Cardinality(DistinctHours(rows)) > 8 THEN "flexible"
  ELSE "regular_schedule"

\* ... and with thresholds that must be exceeded
ArchetypeMoreThan(rows) ==
  IF rows = {} THEN "regular_schedule"
  ELSE IF 100 * Early(rows) > 40 * Cardinality(rows) THEN "morning_person"
  ELSE IF 100 * Late(rows) > 30 * Cardinality(rows) THEN "night_owl"
  ELSE IF Cardinality(DistinctHours(rows)) > 8 THEN "flexible"
  ELSE "regular_schedule"

\* the user types the classifier has returned
Classified == {responses["planner"][k] : k \in DOMAIN responses["planner"]}

\* C28 as claimed: the classifier returns morning_person if at least 40% of the
\* activity hours lie in 6..10; else night_owl if at least 30% lie in
\* {22, 23, 0, 1, 2}; else flexible if more than 8 distinct hours occur; else
\* regular_schedule, which it also returns for an empty history.
C28_ClassifiedAtLeast ==
  \A r \in Classified : r.type = ArchetypeAtLeast(PatternRows(r.user_id))

\* C28 amended: the classifier returns one of the four archetypes:
\* morning_person if more than 40% of the activity hours lie in 6..10; else
\* night_owl if more than 30% lie in {22, 23, 0, 1, 2}; else flexible if more
\* than 8 distinct hours occur; else regular_schedule, also for an empty
\* history.
C28_ClassifiedMoreThan ==
  \A r \in Classified :
    /\ r.type \in DOMAIN optimal_times
    /\ r.type = ArchetypeMoreThan(PatternRows(r.user_id))

\* C28 witness: a history of ten entries, four of them early (exactly 40%) and
\* three late (exactly 30%), with nine distinct hours, was classified flexible.
C28_Witness ==
  \E r \in Classified :
    LET rows == PatternRows(r.user_id)
    IN /\ Cardinality(rows) = 10
       /\ Early(rows) = 4
       /\ Late(rows) = 3
       /\ Cardinality(DistinctHours(rows)) = 9
       /\ r.type = "flexible"

\* the archetypes schedule_daily_nudges can arrive at for a user: the
\* classification of the user's recent activity, and that of an empty pattern
\* when the activity query raised
Archetypes(u) ==
  {_classify_user_schedule_type(PatternRows(u))}
  \cup (IF faulty THEN {_classify_user_schedule_type({})} ELSE {})

C29_Step ==
  (Returns /\ \A k \in DOMAIN due["planner"] : due["planner"][k].path = "planned") =>
    LET plan == due["planner"]
        returned == responses'["planner"][Len(responses'["planner"])].times
    IN /\ Len(returned) \in {1, 2}
       /\ \A i, j \in DOMAIN returned :
            i # j => HourOf(returned[i]) # HourOf(returned[j])
       /\ \E user_type \in Archetypes(users["planner"][1]) :
            \A k \in DOMAIN returned :
              HourOf(returned[k]) \in Range(optimal_times[user_type])
       /\ \A k \in DOMAIN returned :
            /\ MinuteOf(returned[k]) \in 0..59
            /\ MinuteOf(returned[k]) = plan[k].minute

\* C29: when the planning does not raise, schedule_daily_nudges returns one or
\* two instants; their hours of day are pairwise distinct and all come from
\* the optimal hours of the user's archetype, and each minute is the one drawn
\* from 0..59.
C29_PlannedHoursOfArchetype == [][C29_Step]_vars

\* C29 witness: a morning person planned at 08:59 was given two instants, the
\* 07:30 of tomorrow and the 19:00 of today.
C29_Witness ==
  /\ _classify_user_schedule_type(PatternRows("default_user")) = "morning_person"
  /\ pc["planner"] = "idle"
  /\ Len(responses["planner"]) = 1
  /\ responses["planner"][1].times = <<Combine(21, 7, 30), Combine(20, 19, 0)>>

\* C30: within one time-capsule sweep, the due capsules of a user are
\* delivered in ascending creation-time order, whatever their earliest-delivery
\* bounds are.
C30_OldestCreatedFirst ==
  \A p \in Sweepers : \A i, j \in DOMAIN order[p] :
    (/\ i < j
     /\ order[p][i] \in DOMAIN capsules
     /\ order[p][j] \in DOMAIN capsules
     /\ capsules[order[p][i]].user_id = capsules[order[p][j]].user_id)
      => capsules[order[p][i]].created_at <= capsules[order[p][j]].created_at

\* the ids of the nudges a sweep fetched
Fetched(p) == {due[p][k].id : k \in DOMAIN due[p]}

\* one fan-out of a nudge sweep: every nudge that fires earlier than the one
\* fanned out now is marked, and was fanned out by this sweep if it fetched it
C31_Step ==
  \A p \in Sweepers :
    (pc[p] = "n_deliver" /\ pc'[p] = "n_mark") =>
      \A a \in DOMAIN nudges :
        nudges[a].scheduled_time < Current(p).row.scheduled_time =>
          /\ nudges[a].delivered = 1
          /\ a \in Fetched(p) =>
               \E i \in DOMAIN order[p] :
                 /\ order[p][i] = a
                 /\ order'[p] = Append(order[p], Current(p).id)

\* C31: within one nudge sweep the due nudges of all users are processed in
\* one pass in ascending fire-at order: when a nudge is fanned out, every
\* nudge with an earlier fire-at, of whichever user, has been fanned out and
\* marked.
C31_OnePassByFireTime == [][C31_Step]_vars

\* C31 witness: at hour 2 the loop's sweep has fanned out 13 (default_user,
\* fires at 0), 12 (u2, fires at 1) and 11 (default_user, fires at 2), in that
\* order, the first two marked.
C31_Witness ==
  /\ pc["loop"] = "n_mark"
  /\ order["loop"] = <<13, 12, 11>>
  /\ nudges[13].delivered = 1
  /\ nudges[12].delivered = 1
  /\ nudges[11].delivered = 0

\* the invocations that are at their update_reminder_delivery call for r
Updating(r) ==
  {p \in Sweepers \cup {"rtool"} :
     /\ pc[p] = (IF p = "rtool" THEN "rt_item" ELSE "r_update")
     /\ Current(p).id = r}

\* every stored reminder, and every reminder object a query returned, has the
\* due time it was stored with; the counter is never below its stored value
C32_DueAsStored ==
  /\ DOMAIN reminders = DOMAIN created
  /\ \A r \in DOMAIN reminders :
       /\ reminders[r].due_at = created[r].due_at
       /\ reminders[r].delivery_count >= created[r].delivery_count
  /\ \A p \in Sweepers \cup {"rtool"} : \A k \in DOMAIN due[p] :
       due[p][k].id \in DOMAIN created
         => due[p][k].due_at = created[due[p][k].id].due_at

\* one step: no reminder disappears, and a counter that moves goes up by 1, in
\* the update of an invocation that has just handed that reminder over
C32_Step ==
  \A r \in DOMAIN reminders :
    /\ r \in DOMAIN reminders'
    /\ reminders'[r].delivery_count \in
         {reminders[r].delivery_count, reminders[r].delivery_count + 1}
    /\ reminders'[r].delivery_count = reminders[r].delivery_count + 1
         => \E p \in Updating(r) : idx'[p] = idx[p] + 1

\* C32: in every reachable state a reminder's due time is the one it was
\* stored with and its delivery_count is never below an earlier value: the
\* sweeps of the loop and of the manual trigger and the get_due_reminders tool
\* leave the counter alone or add exactly 1 for a delivery.
C32_DueFixedCountMonotone == []C32_DueAsStored /\ [][C32_Step]_vars

\* C32 witness: reminder 1 was handed over once by a sweep and once by the
\* tool, and counts 2 with its due time still 0.
C32_Witness ==
  /\ Count(calls["console"], 1) = 1
  /\ Count(handed, 1) = 1
  /\ reminders[1].delivery_count = 2
  /\ reminders[1].due_at = 0
  /\ \A p \in Procs : pc[p] \in {"idle", "none", "sleep"}

\* C33: after any sequence of start() and stop() calls at most one
\* _scheduler_loop task is executing cycles (is inside a sweep of a cycle),
\* also when stop() and then start() are called while the previous loop task
\* has not yet ended.
C33_OneLoopInsideACycle ==
  Cardinality({t \in LoopTasks : pc[t] \notin {"none", "head", "sleep"}}) <= 1

\* stop() was the last call of main
Stopped ==
  /\ Len(responses["main"]) >= 1
  /\ responses["main"][Len(responses["main"])].call = "stop"

\* the loop tasks have all ended
LoopEnded == \A t \in LoopTasks : pc[t] = "none"

\* one step after the loop ended: no loop task comes back, and whatever is
\* handed to a channel or written to a table is the manual trigger's doing
C34_Step ==
  (Stopped /\ LoopEnded /\ Stopped') =>
    /\ LoopEnded'
    /\ (calls' # calls \/ store' # store) =>
         /\ pc["manual"] # "idle"
         /\ pc'["manual"] # pc["manual"] \/ idx'["manual"] # idx["manual"]

\* C34: when stop() is called and start() is not called afterwards, the loop
\* task ends after its current cycle and interval wait, and from then on no
\* sweep runs except through the manual trigger.
C34_LoopEndsAfterStop ==
  /\ Stopped ~> LoopEnded
  /\ [][C34_Step]_vars

\* C34 witness: the scheduler was stopped during the loop's first cycle, the
\* loop task has ended, and the manual trigger is delivering the capsule.
C34_Witness ==
  /\ Stopped
  /\ responses["main"][2].loop \in RemStates
  /\ LoopEnded
  /\ pc["manual"] = "c_mark"

\* the update_reminder_delivery calls that completed for r: one after each
\* fan-out of a sweep, except where a sweep has yet to make it, and one for
\* each response the tool collected or returned
CompletedUpdates(r) ==
  Count(calls["console"], r)
  - Cardinality({p \in Sweepers : pc[p] = "r_update" /\ Current(p).id = r})
  + Count(handed, r)
  + Cardinality({k \in DOMAIN responses["rtool"] : responses["rtool"][k] = r})

\* C35: under any interleaving of the reminder sweeps of the loop and of the
\* manual trigger with get_due_reminders tool calls no increment is lost: a
\* reminder's delivery_count is its stored value plus the number of
\* update_reminder_delivery calls that completed for it.
C35_NoLostIncrement ==
  \A r \in DOMAIN reminders :
    reminders[r].delivery_count = created[r].delivery_count + CompletedUpdates(r)

\* C35 witness: a sweep and the tool both fetched reminder 1 while it counted
\* 0; the tool's update has completed, and so has the sweep's: it counts 2.
C35_Witness ==
  /\ \E p \in Sweepers :
       /\ pc[p] = "r_query"
       /\ Len(due[p]) = 1
       /\ due[p][1].id = 1
       /\ due[p][1].delivery_count = 0
  /\ pc["rtool"] = "rt_return"
  /\ due["rtool"][1].id = 1
  /\ due["rtool"][1].delivery_count = 0
  /\ reminders[1].delivery_count = 2

\* C36: every message a sweep hands to a delivery callback is a non-null
\* string, for reminders, time capsules and nudges, daily nudges as well as
\* contextual ones.
C36_MessageNeverNull ==
  \A p \in Sweepers : \A k \in DOMAIN attempts[p] :
    /\ attempts[p][k].args.message # Null
    /\ attempts[p][k].args.message_type = "nudge"
         => attempts[p][k].args.message # <<None>>

\* the undelivered daily nudges of user u in `table` that fire at t
StoredDaily(table, u, t) ==
  {i \in DOMAIN table : /\ table[i].user_id = u
                        /\ table[i].nudge_type = "daily"
                        /\ table[i].delivered = 0
                        /\ table[i].scheduled_time = t}

C37_Step ==
  Returns =>
    \A k \in DOMAIN due["planner"] :
      StoredDaily(nudges', users["planner"][1], due["planner"][k].time) # {}

\* C37: when schedule_daily_nudges returns a list of fire-at instants, the
\* store holds, for each returned instant, an undelivered daily nudge of that
\* user at exactly that instant, also when an insert failed: the caller is
\* never told about times that were not stored.
C37_ReturnedTimesAreStored == [][C37_Step]_vars

\* the undelivered daily nudges of user u
UndeliveredDaily(u) ==
  {i \in DOMAIN nudges : /\ nudges[i].user_id = u
                         /\ nudges[i].nudge_type = "daily"
                         /\ nudges[i].delivered = 0}

\* C38: after any number of planner runs for a user with no sweep in between,
\* the user's undelivered daily nudges number at most 2, the most one run
\* schedules, also when runs late in the day roll their instants to the next
\* day.
C38_AtMostTwoUndeliveredDaily ==
  \A u \in Users : Cardinality(UndeliveredDaily(u)) <= 2

C39_Step ==
  StoreStep =>
    LET u == users["planner"][1]
    IN /\ \A i \in DOMAIN nudges :
            (nudges[i].delivered = 1 \/ nudges[i].user_id # u)
              => i \in DOMAIN nudges' /\ nudges'[i] = nudges[i]
       /\ \A i \in DOMAIN nudges \ DOMAIN nudges' :
            nudges[i].user_id = u /\ nudges[i].delivered = 0
       /\ \A i \in DOMAIN nudges \cap DOMAIN nudges' :
            /\ nudges'[i].delivered = nudges[i].delivered
            /\ nudges'[i].delivered_at = nudges[i].delivered_at

\* C39: a planner run for user U leaves every delivered nudge, of U or of
\* anyone, and every nudge of another user as it was: the replacement removes
\* only undelivered nudges of U and changes no delivered flag and no
\* delivered-at value.
C39_ReplacementFrame == [][C39_Step]_vars

\* C39 witness: a second run for default_user has removed the nudge the first
\* run stored for today; the nudge delivered this morning and the nudge of u2
\* are as they were.
C39_Witness ==
  /\ pc["planner"] = "idle"
  /\ Len(responses["planner"]) = 2
  /\ responses["planner"][2].user_id = "default_user"
  /\ \E t \in Range(responses["planner"][1].times) :
       /\ DateOf(t) = DateOf(now)
       /\ DailyId("default_user", t) \notin DOMAIN nudges
  /\ \A i \in DOMAIN PlannerTable :
       i \in DOMAIN nudges /\ nudges[i] = PlannerTable[i]

====
